---- MODULE Spec2Model ----
(***************************************************************************)
(* A model of the UserOperation lifecycle engine of ethers-userop:         *)
(*   - UserOperationBuilder (src/src/uo_builder.rs): the partial operation, *)
(*     its setters and build_uo;                                            *)
(*   - UserOpMiddleware (src/src/userop_middleware.rs): handle_response,    *)
(*     sign_uo and the high-level actions call, send_eth, deploy_scw,       *)
(*     deploy_random_scw and build_random_address;                          *)
(*   - run_bundler (src/src/bundler.rs): the start of the three services    *)
(*     and the return on a failure or a signal.                             *)
(* The execution client and the bundler are the environment: every answer  *)
(* they give is drawn with \E from a small set of representative answers.  *)
(***************************************************************************)
EXTENDS Integers, Sequences, FiniteSets, TLC

\* ------------------------------------------------------------------ bounds
\* Cap on the eth_sendUserOperation requests of one action (the code's loop
\* has none).
MaxSends == 3
\* Cap on the set_scw_address calls made on one builder.
MaxAddressCalls == 3

\* ------------------------------------------------------------ Option<T>
\* Option<T> is a sequence of length at most one.
None == <<>>
Some(v) == <<v>>
is_none(o) == o = None
is_some(o) == o # None
unwrap(o) == o[1]

\* ------------------------------------------------------------ addresses
\* An address is a tuple; the counter-factual address is the tuple of what
\* the factory's getAddress(owner, salt) is computed from.
ZeroAddress == <<"0x0">>
SignerAddress == <<"eoa">>
ENTRY_POINT_ADDRESS == <<"entry_point">>
SIMPLE_ACCOUNT_FACTORY == <<"0x9406">>
GETH_SIMPLE_ACCOUNT_FACTORY == <<"0xe7f1">>
ChainId == 1337

\* Bytes::default() / Bytes::new()
EmptyBytes == <<>>
\* DUMMY_SIGNATURE.as_bytes(): the placeholder attached before estimation.
DUMMY_SIGNATURE == <<"DUMMY_SIGNATURE">>
\* The string literal of DUMMY_SIGNATURE: "0x" and 130 hexadecimal digits.
DUMMY_SIGNATURE_literal ==
  "0xfffffffffffffffffffffffffffffff0000000000000000000000000000000007aaaaaaaaaaaaaaaaaaaaaaaaaaaaaaaaaaaaaaaaaaaaaaaaaaaaaaaaaaaaaaa1c"
\* The length of str::as_bytes(): one byte for each character of an ASCII
\* string; nothing is decoded.
as_bytes_len(s) == Len(s)
\* The number of bytes of a value of the signature field that the
\* middleware attaches before estimation.
signature_len(sig) ==
  IF sig = DUMMY_SIGNATURE THEN as_bytes_len(DUMMY_SIGNATURE_literal)
  ELSE Len(sig)

\* ------------------------------------------------------ wallet registry
WalletNames == {"simple-account", "simple-account-test", "soul-wallet"}

\* WalletRegistry::from_str
WalletRegistry_from_str(s) ==
  IF s = "simple-account" THEN [ok |-> TRUE, wallet |-> "SimpleAccount"]
  ELSE IF s = "simple-account-test" THEN [ok |-> TRUE, wallet |-> "SimpleAccount"]
  ELSE [ok |-> FALSE, wallet |-> "none"]

\* WalletFactoryRegistry::from_str
WalletFactoryRegistry_from_str(s) ==
  IF s = "simple-account"
    THEN [ok |-> TRUE, factory |-> "SimpleAccountFactory", addr |-> SIMPLE_ACCOUNT_FACTORY]
  ELSE IF s = "simple-account-test"
    THEN [ok |-> TRUE, factory |-> "SimpleAccountFactory", addr |-> GETH_SIMPLE_ACCOUNT_FACTORY]
  ELSE [ok |-> FALSE, factory |-> "none", addr |-> ZeroAddress]

\* UserOperationBuilder::match_wallet
match_wallet(wallet_name) ==
  LET f == WalletFactoryRegistry_from_str(wallet_name)
      w == WalletRegistry_from_str(wallet_name)
  IN IF ~f.ok THEN [ok |-> FALSE, wallet |-> "none", factory |-> "none", addr |-> ZeroAddress]
     ELSE IF ~w.ok THEN [ok |-> FALSE, wallet |-> "none", factory |-> "none", addr |-> ZeroAddress]
     ELSE [ok |-> TRUE, wallet |-> w.wallet, factory |-> f.factory, addr |-> f.addr]

\* ------------------------------------------------- UserOperationPartial
\* The eleven fields in the order of the UserOperation structure.
CanonicalOrder ==
  << "sender", "nonce", "init_code", "call_data", "call_gas_limit",
     "verification_gas_limit", "pre_verification_gas", "max_fee_per_gas",
     "max_priority_fee_per_gas", "paymaster_and_data", "signature" >>

Fields == { CanonicalOrder[i] : i \in 1..Len(CanonicalOrder) }
PreSignatureFields == Fields \ {"signature"}

\* The partial operation UserOperationBuilder::new installs: every field None.
EmptyPartial == [f \in Fields |-> None]

\* UserOperationBuilder::new
UserOperationBuilder_new(eoa_wallet_address, wallet_name, scw_address, salt) ==
  LET m == match_wallet(wallet_name)
  IN [ ok |-> m.ok,
       builder |-> [ factory_contract |-> m.factory,
                     factory_address  |-> m.addr,
                     wallet_contract  |-> m.wallet,
                     scw_address      |-> scw_address,
                     signer_address   |-> eoa_wallet_address,
                     salt             |-> salt,
                     uo               |-> EmptyPartial,
                     uo_hash          |-> None ] ]

\* A set_wallet that assigns what match_wallet found before testing it.
set_wallet_unchecked(b, wallet_name) ==
  LET m == match_wallet(wallet_name)
  IN [ok |-> m.ok,
      builder |-> [b EXCEPT !.wallet_contract = m.wallet, !.factory_contract = m.factory,
                            !.factory_address = m.addr]]

\* UserOperationBuilder::set_wallet: `match_wallet(..)?` first, then the
\* three assignments.
set_wallet(b, wallet_name) ==
  LET m == match_wallet(wallet_name)
  IN IF ~m.ok THEN [ok |-> FALSE, builder |-> b]
     ELSE [ok |-> TRUE,
           builder |-> [b EXCEPT !.wallet_contract = m.wallet, !.factory_contract = m.factory,
                                 !.factory_address = m.addr]]

\* A set_uo_nonce that also forgets the recorded hash.
set_uo_nonce_forgets_hash(b, v) == [b EXCEPT !.uo.nonce = Some(v), !.uo_hash = None]

\* The setters: each overwrites one field of builder.uo.
set_uo_sender(b, v) == [b EXCEPT !.uo.sender = Some(v)]
set_uo_nonce(b, v) == [b EXCEPT !.uo.nonce = Some(v)]
set_uo_init_code(b, v) == [b EXCEPT !.uo.init_code = Some(v)]
set_uo_calldata(b, v) == [b EXCEPT !.uo.call_data = Some(v)]
set_uo_call_gas_limit(b, v) == [b EXCEPT !.uo.call_gas_limit = Some(v)]
set_uo_verification_gas_limit(b, v) == [b EXCEPT !.uo.verification_gas_limit = Some(v)]
set_uo_pre_verification_gas(b, v) == [b EXCEPT !.uo.pre_verification_gas = Some(v)]
set_uo_max_fee_per_gas(b, v) == [b EXCEPT !.uo.max_fee_per_gas = Some(v)]
set_uo_max_priority_fee_per_gas(b, v) == [b EXCEPT !.uo.max_priority_fee_per_gas = Some(v)]
set_uo_paymaster_and_data(b, v) == [b EXCEPT !.uo.paymaster_and_data = Some(v)]
set_uo_signature(b, v) == [b EXCEPT !.uo.signature = Some(v)]

\* A set_uo_hash that records nothing.
set_uo_hash_dropped(b, h) == b

\* A builder that keeps the first hash it was ever given.
set_uo_hash_stale(b, h) == [b EXCEPT !.uo_hash = Some("hash1")]

\* UserOperationBuilder::set_uo_hash
set_uo_hash(b, h) == [b EXCEPT !.uo_hash = Some(h)]

\* UserOperation::from(UserOperationPartial): an absent field becomes the
\* default value of its type.
DefaultOf(f) ==
  IF f = "sender" THEN ZeroAddress
  ELSE IF f \in {"init_code", "call_data", "paymaster_and_data", "signature"} THEN EmptyBytes
  ELSE 0

UserOperation_from(p) ==
  [f \in Fields |-> IF is_none(p[f]) THEN DefaultOf(f) ELSE unwrap(p[f])]

\* The order in which build_uo tests the fields.
BuildCheckOrder ==
  << "sender", "nonce", "init_code", "call_data", "call_gas_limit",
     "pre_verification_gas", "verification_gas_limit",
     "max_priority_fee_per_gas", "max_fee_per_gas", "paymaster_and_data",
     "signature" >>

\* A check order that forgets the signature (a build_uo that tests only the
\* ten pre-signature fields).
BuildCheckOrderNoSignature == SubSeq(BuildCheckOrder, 1, 10)

RECURSIVE FirstMissing(_, _, _)
FirstMissing(p, order, i) ==
  IF i > Len(order) THEN None
  ELSE IF is_none(p[order[i]]) THEN Some(order[i])
  ELSE FirstMissing(p, order, i + 1)

build_uo_with(p, order) ==
  LET m == FirstMissing(p, order, 1)
  IN IF is_some(m)
       THEN [ok |-> FALSE, err |-> <<"MissingUserOperationField", unwrap(m)>>,
             uo |-> UserOperation_from(EmptyPartial)]
       ELSE [ok |-> TRUE, err |-> <<>>, uo |-> UserOperation_from(p)]

build_uo_no_signature(b) == build_uo_with(b.uo, BuildCheckOrderNoSignature)

\* UserOperationBuilder::build_uo
build_uo(b) == build_uo_with(b.uo, BuildCheckOrder)

\* UserOperation::hash: the ten pre-signature fields, the entry point and the
\* chain id; the hash is modelled by its preimage.
uo_hash_of(uo, entry_point, chain_id) ==
  << [f \in PreSignatureFields |-> uo[f]], entry_point, chain_id >>

\* A signature taken over the operation as it was before the gas setters of
\* the retry loop ran (the placeholder gas values of the first setter chain).
sign_uo_before_gas(uo) ==
  [uo EXCEPT !.signature =
     <<"sig", SignerAddress,
       uo_hash_of([uo EXCEPT !.call_gas_limit = 1, !.pre_verification_gas = 1,
                             !.verification_gas_limit = 1000000],
                  ENTRY_POINT_ADDRESS, ChainId)>>]

\* A signature taken over the whole operation, the signature it already
\* carries included.
sign_uo_over_signature(uo) ==
  [uo EXCEPT !.signature = <<"sig", SignerAddress, << uo, ENTRY_POINT_ADDRESS, ChainId >> >>]

\* UserOpMiddleware::sign_uo (Wallet::sign_uo): the same operation with the
\* signature replaced by the signature over its hash.
\* A signer that hands the operation back as it got it.
sign_uo_unsigned(uo) == uo

sign_uo(uo) ==
  [uo EXCEPT !.signature = <<"sig", SignerAddress, uo_hash_of(uo, ENTRY_POINT_ADDRESS, ChainId)>>]

\* ------------------------------------------------------- bundler replies
\* A decimal numeral captured by (\d+): its value when it fits u64, or a
\* numeral above u64::MAX, on which parse::<u64>() fails.
Numeral(v) == [fits |-> TRUE, val |-> v]
BigNumeral == [fits |-> FALSE, val |-> 0]

\* An error message, by what the three patterns find in it.
Message(call, pre, aa40) == [call |-> call, pre |-> pre, aa40 |-> aa40]
MsgCall(n, m) == Message(Some(<<n, m>>), None, FALSE)
MsgPre(n, m) == Message(None, Some(<<n, m>>), FALSE)
MsgAA40 == Message(None, None, TRUE)
MsgOther == Message(None, None, FALSE)

\* An HTTP reply: whether its text can be read, whether the JSON object has
\* the envelope members jsonrpc and id, its result member (when it decodes
\* as the expected result type) and its error member.
Body(text_ok, envelope, result, error) ==
  [text_ok |-> text_ok, envelope |-> envelope, result |-> result, error |-> error]
BodyResult(r) == Body(TRUE, TRUE, Some(r), None)
BodyError(msg) == Body(TRUE, TRUE, None, Some(msg))
BodyGarbage == Body(TRUE, FALSE, None, None)

\* The outcomes of a request: Ok(result), an error value, or a panic.
\* custom is TRUE for the errors that downcast to UserOpMiddlewareError.
Outcome(tag, custom, n, m, result) ==
  [tag |-> tag, custom |-> custom, n |-> n, m |-> m, result |-> result]
OutOk(r) == Outcome("Ok", FALSE, 0, 0, Some(r))
OutErr(tag) == Outcome(tag, FALSE, 0, 0, None)
OutCustom(tag, n, m) == Outcome(tag, TRUE, n, m, None)
OutPanic == Outcome("Panic", FALSE, 0, 0, None)

\* The classification of an error message (lines 245-276).
classify(msg) ==
  IF is_some(msg.call)
    THEN LET c == unwrap(msg.call)
         IN IF c[1].fits /\ c[2].fits
              THEN OutCustom("CallGasLimitError", c[1].val, c[2].val)
              ELSE OutPanic
  ELSE IF is_some(msg.pre)
    THEN LET c == unwrap(msg.pre)
         IN IF c[1].fits /\ c[2].fits
              THEN OutCustom("PreVerificationGasError", c[1].val, c[2].val)
              ELSE OutPanic
  ELSE IF msg.aa40 THEN OutCustom("VerificationGasLimitError", 0, 0)
  ELSE OutCustom("UnknownError", 0, 0)

\* UserOpMiddleware::handle_response
handle_response(body) ==
  IF ~body.text_ok THEN OutErr("ReqwestError")
  ELSE IF body.envelope /\ is_some(body.result) THEN OutOk(unwrap(body.result))
  ELSE IF ~(body.envelope /\ is_some(body.error)) THEN OutErr("JsonError")
  ELSE classify(unwrap(body.error))

\* An HTTP exchange: the POST itself fails, or a body comes back.
Reply(http_ok, body) == [http_ok |-> http_ok, body |-> body]
ReplyHttpFailure == Reply(FALSE, BodyGarbage)

\* send_user_operation / estimate_user_operation_gas after the request is
\* built: `.send().await?` then handle_response.
rpc_outcome(reply) ==
  IF ~reply.http_ok THEN OutErr("ReqwestError") ELSE handle_response(reply.body)

GasErrors == {"CallGasLimitError", "PreVerificationGasError", "VerificationGasLimitError"}

\* ------------------------------------------------------------------ state
VARIABLES
  pc,          \* position of the running action ("idle" before, "done" after)
  act,         \* the running action and its arguments
  builder,     \* the action's UserOperationBuilder
  locals,      \* the action's local variables
  wallet_map,  \* UserOpMiddleware.wallet_map: the addresses it has an entry for
  log,         \* the requests issued so far, each with its outcome
  result,      \* what the action returned to its caller
  build_rec,   \* builder exercise: the last build_uo call and its result
  resp_body,   \* reply exercise: the body handed to handle_response
  resp_out,    \* reply exercise: what handle_response returned
  sup,         \* run_bundler: the supervisor's tasks, services and return
  cli,         \* the CLI: config.json and the wallet subcommands running on it
  calls        \* two call actions of one client running together

vars == << pc, act, builder, locals, wallet_map, log, result,
           build_rec, resp_body, resp_out, sup, cli, calls >>

\* ------------------------------------------------------- external answers
Nonces == {0, 1}
Salts == {1, 2}
PreFunds == {1, 10}
\* rand::thread_rng().gen::<u64>()
RandomU64s == {7, 9}
ScwAddresses == { <<"scw">> }
DestAddresses == { <<"dest">> }
Amounts == {5}
CodeAnswers == {"empty", "nonempty", "error"}
\* estimate_eip1559_fees: (max_fee_per_gas, max_priority_fee_per_gas)
FeeAnswers == { Some(<<30, 2>>), Some(<<40, 3>>), None }
UserOperationHashes == {"hash1", "hash2"}

\* EstimateResult
EstimateResult(pvg, vgl, cgl) ==
  [pre_verification_gas |-> pvg, verification_gas_limit |-> vgl, call_gas_limit |-> cgl]

EstimateReplies ==
  { Reply(TRUE, BodyResult(EstimateResult(2, 4, 2))),
    Reply(TRUE, BodyResult(EstimateResult(3, 5, 1))),
    Reply(TRUE, BodyError(MsgAA40)),
    ReplyHttpFailure }

SendReplies ==
  { Reply(TRUE, BodyResult(h)) : h \in UserOperationHashes } \cup
  { Reply(TRUE, BodyError(MsgCall(Numeral(1), Numeral(3)))),
    Reply(TRUE, BodyError(MsgCall(Numeral(3), Numeral(1)))),
    Reply(TRUE, BodyError(MsgPre(Numeral(1), Numeral(3)))),
    Reply(TRUE, BodyError(MsgCall(Numeral(1), BigNumeral))),
    Reply(TRUE, BodyError(MsgAA40)),
    Reply(TRUE, BodyError(MsgOther)),
    Reply(TRUE, BodyGarbage),
    ReplyHttpFailure }

\* Typed transactions handed to call: the request type, and its data, to and
\* value members (to is an address or an ENS name).
Tx(type, data, to, value) == [type |-> type, data |-> data, to |-> to, value |-> value]
ToAddress(a) == [is_address |-> TRUE, addr |-> a]
ToName == [is_address |-> FALSE, addr |-> ZeroAddress]
TxInputs ==
  { Tx("Eip1559", Some(<<"calldata">>), Some(ToAddress(<<"dest">>)), Some(5)),
    Tx("Legacy", None, Some(ToAddress(<<"dest">>)), Some(5)),
    Tx("Eip2930", Some(<<"calldata">>), None, Some(5)),
    Tx("Eip1559", Some(<<"calldata">>), Some(ToName), Some(5)),
    Tx("Legacy", Some(<<"calldata">>), Some(ToAddress(<<"dest">>)), None) }

\* ----------------------------------------------------------- constructors
NoAct ==
  [kind |-> "none", wallet_name |-> "simple-account", scw_address |-> ZeroAddress,
   dest |-> ZeroAddress, value |-> 0, data |-> EmptyBytes, pre_fund |-> 0, salt |-> 0,
   via |-> "direct", caller_pre_fund |-> 0, random |-> 0]

NoLocals ==
  [code |-> "unread", nonce |-> 0, gas_price |-> 0, priority_fee |-> 0,
   pre_verification_gas |-> 0, call_gas_limit |-> 0, verification_gas_limit |-> 0,
   uo_hash |-> None]

NoBuilder == UserOperationBuilder_new(ZeroAddress, "simple-account", None, None).builder

NoUo == UserOperation_from(EmptyPartial)

\* A log entry: the request's method, the operation it carries and the partial
\* operation that operation was built from, its argument, and its outcome.
Entry(method, uo, src, arg, out) ==
  [method |-> method, uo |-> uo, src |-> src, arg |-> arg, out |-> out]
PlainEntry(method, arg, outtag) == Entry(method, NoUo, EmptyPartial, arg, OutErr(outtag))

\* What an action returns: Ok(value), Err(error) or a panic.
RetOk(v) == [tag |-> "Ok", value |-> <<v>>, err |-> "none"]
RetErr(e) == [tag |-> "Err", value |-> <<>>, err |-> e]
RetPanic == [tag |-> "Panic", value |-> <<>>, err |-> "none"]
NoResult == [tag |-> "none", value |-> <<>>, err |-> "none"]

\* UserOpMiddleware::new: the map holds one default entry.
wallet_map_new == {ZeroAddress}

\* run_bundler not called: no task, no service, no configuration of note.
NoSup ==
  [main |-> "none", facade |-> "none", services |-> {}, events |-> <<>>,
   ret |-> NoResult, send_bundle_mode |-> "EthClient", http |-> TRUE, ws |-> FALSE,
   signal |-> "none"]

\* ------------------------------------------------------------ config.json
\* The invocations of the CLI's wallet subcommands that run side by side.
Procs == {1, 2}

\* The address of the key that invocation p generates; <<"key", 0>> is a key
\* generated earlier.
CliAddress(p) == <<"key", p>>
CliAddresses == { CliAddress(p) : p \in {0} \cup Procs }

\* AddressKeyMapping
AddressKeyMapping(address) ==
  [address |-> address, deployed_smart_contract_wallet |-> <<>>]

\* JsonWalletConfig: address_key_map is a Vec, address_scw_map a HashMap from
\* an address to a Vec of addresses, where an absent key is the empty Vec.
Config(keys, scws) == [address_key_map |-> keys, address_scw_map |-> scws]
EmptyConfig == Config(<<>>, [a \in CliAddresses |-> <<>>])

\* config.json: whether it exists, whether its content parses as a Config,
\* and the Config it holds when it does.
File(exists, valid, config) == [exists |-> exists, valid |-> valid, config |-> config]

\* An invocation: its subcommand and arguments, its position, the Config it
\* read, its own copy of the Config, the requests it issued, what it returned.
NoProc ==
  [cmd |-> "none", pc |-> "none", source_address |-> ZeroAddress, salt |-> 0,
   wallet_name |-> "simple-account", read |-> EmptyConfig, config |-> EmptyConfig,
   requests |-> <<>>, ret |-> NoResult]

NoCli == [file |-> File(FALSE, FALSE, EmptyConfig), procs |-> [p \in Procs |-> NoProc]]

\* Two call actions of one client: the wallet's nonce in the EntryPoint as
\* last read, the getNonce and eth_sendUserOperation requests of both in
\* order, and each action's position, arguments, builder, locals and return.
CallTasks == {1, 2}
NoCall ==
  [pc |-> "idle", act |-> NoAct, builder |-> NoBuilder, locals |-> NoLocals,
   ret |-> NoResult]
NoCalls ==
  [entry_point_nonce |-> 0, requests |-> <<>>, task |-> [p \in CallTasks |-> NoCall]]

\* The exercise variables do not take part in the client's behaviour.
NoBuildRec ==
  [called |-> FALSE, src |-> EmptyPartial, ok |-> FALSE, err |-> <<>>,
   op |-> "none", name |-> "none", value |-> None]
ExerciseIdle ==
  /\ build_rec = NoBuildRec
  /\ resp_body = BodyGarbage
  /\ resp_out = OutErr("none")
  /\ sup = NoSup
  /\ cli = NoCli
  /\ calls = NoCalls

Init ==
  /\ pc = "idle"
  /\ act = NoAct
  /\ builder = NoBuilder
  /\ locals = NoLocals
  /\ wallet_map = wallet_map_new
  /\ log = <<>>
  /\ result = NoResult
  /\ ExerciseIdle

\* return: the action ends with r.
Return(r) ==
  /\ pc' = "done"
  /\ result' = r

\* --------------------------------------------------------- call, send_eth
\* UserOpMiddleware::uo_calldata_from_tx: the three request types are
\* unwrapped alike; an absent member or a `to` that is no address panics.
uo_calldata_from_tx(tx) ==
  IF is_none(tx.data) \/ is_none(tx.to) THEN [panic |-> TRUE, data |-> EmptyBytes, dest |-> ZeroAddress, value |-> 0]
  ELSE IF ~unwrap(tx.to).is_address \/ is_none(tx.value)
    THEN [panic |-> TRUE, data |-> EmptyBytes, dest |-> ZeroAddress, value |-> 0]
  ELSE [panic |-> FALSE, data |-> unwrap(tx.data), dest |-> unwrap(tx.to).addr, value |-> unwrap(tx.value)]

\* SmartWalletAccount::execute: the calldata of execute(dest, value, func).
execute(dest, value, func) == <<"execute", dest, value, func>>

\* The part of call and send_eth from the builder's creation on (lines
\* 298-306, 527-535).
StartAction(kind, wallet_name, scw_wallet_address, dest, value, data) ==
  LET nb == UserOperationBuilder_new(SignerAddress, wallet_name, Some(scw_wallet_address), None)
  IN IF ~nb.ok
       THEN /\ Return(RetErr("WalletNotSupported"))
            /\ act' = [NoAct EXCEPT !.kind = kind, !.wallet_name = wallet_name]
            /\ UNCHANGED builder
       ELSE /\ pc' = "get_code"
            /\ builder' = nb.builder
            /\ act' = [NoAct EXCEPT !.kind = kind, !.wallet_name = wallet_name,
                                    !.scw_address = scw_wallet_address,
                                    !.dest = dest, !.value = value, !.data = data]
            /\ UNCHANGED result

\* call, lines 291-306
call_start ==
  /\ pc = "idle"
  /\ \E wallet_name \in WalletNames, scw \in ScwAddresses, tx \in TxInputs :
       LET t == uo_calldata_from_tx(tx)
       IN IF t.panic
            THEN /\ Return(RetPanic)
                 /\ act' = [NoAct EXCEPT !.kind = "call", !.wallet_name = wallet_name]
                 /\ UNCHANGED builder
            ELSE StartAction("call", wallet_name, scw, t.dest, t.value, t.data)
  /\ UNCHANGED << locals, wallet_map, log, build_rec, resp_body, resp_out, sup, cli, calls >>

\* send_eth, lines 520-535
send_eth_start ==
  /\ pc = "idle"
  /\ \E wallet_name \in WalletNames, scw \in ScwAddresses, to \in DestAddresses, amount \in Amounts :
       StartAction("send_eth", wallet_name, scw, to, amount, EmptyBytes)
  /\ UNCHANGED << locals, wallet_map, log, build_rec, resp_body, resp_out, sup, cli, calls >>

\* Tests that never, resp. always, find the code empty.
code_never_empty(code) == FALSE
code_always_empty(code) == TRUE

\* scw_code.0.is_empty()
code_is_empty(code) == code = "empty"

\* provider.get_code and the deployment test (lines 308-315, 537-544).
GetCodeStep(kind) ==
  /\ pc = "get_code"
  /\ act.kind = kind
  /\ \E code \in CodeAnswers :
       /\ log' = Append(log, PlainEntry("eth_getCode", act.scw_address, code))
       /\ locals' = [locals EXCEPT !.code = code]
       /\ IF code = "error" THEN Return(RetErr("MiddlewareError"))
          ELSE IF code_is_empty(code) THEN Return(RetErr("SmartContractWalletHasNotBeenDeployed"))
          ELSE pc' = "get_nonce" /\ UNCHANGED result
  /\ UNCHANGED << act, builder, wallet_map, build_rec, resp_body, resp_out, sup, cli, calls >>

call_get_code == GetCodeStep("call")
send_eth_get_code == GetCodeStep("send_eth")

\* EntryPoint.get_nonce(scw, 0) (lines 317-319, 546-548).
GetNonceStep(kind) ==
  /\ pc = "get_nonce"
  /\ act.kind = kind
  /\ \E ans \in { Some(n) : n \in Nonces } \cup {None} :
       /\ log' = Append(log, PlainEntry("getNonce", act.scw_address,
                                        IF is_some(ans) THEN "Ok" ELSE "MiddlewareError"))
       /\ IF is_none(ans)
            THEN Return(RetErr("MiddlewareError")) /\ UNCHANGED locals
            ELSE /\ pc' = "fees"
                 /\ locals' = [locals EXCEPT !.nonce = unwrap(ans)]
                 /\ UNCHANGED result
  /\ UNCHANGED << act, builder, wallet_map, build_rec, resp_body, resp_out, sup, cli, calls >>

call_get_nonce == GetNonceStep("call")
send_eth_get_nonce == GetNonceStep("send_eth")

\* inner.estimate_eip1559_fees (lines 323, 556).
FeesStep(kind) ==
  /\ pc = "fees"
  /\ act.kind = kind
  /\ \E ans \in FeeAnswers :
       /\ log' = Append(log, PlainEntry("eth_feeHistory", ans,
                                        IF is_some(ans) THEN "Ok" ELSE "MiddlewareError"))
       /\ IF is_none(ans)
            THEN Return(RetErr("MiddlewareError")) /\ UNCHANGED locals
            ELSE /\ pc' = "estimate"
                 /\ locals' = [locals EXCEPT !.gas_price = unwrap(ans)[1],
                                             !.priority_fee = unwrap(ans)[2]]
                 /\ UNCHANGED result
  /\ UNCHANGED << act, builder, wallet_map, build_rec, resp_body, resp_out, sup, cli, calls >>

call_fees == FeesStep("call")
send_eth_fees == FeesStep("send_eth")

\* The setter chain before estimation (lines 325-336, 558-569).
fill_uo(b, a, l) ==
  set_uo_signature(
   set_uo_paymaster_and_data(
    set_uo_max_priority_fee_per_gas(
     set_uo_max_fee_per_gas(
      set_uo_verification_gas_limit(
       set_uo_pre_verification_gas(
        set_uo_call_gas_limit(
         set_uo_calldata(
          set_uo_init_code(
           set_uo_nonce(
            set_uo_sender(b, a.scw_address),
            l.nonce),
           EmptyBytes),
          execute(a.dest, a.value, a.data)),
         1),
        1),
       1000000),
      1),
     l.priority_fee),
    EmptyBytes),
   DUMMY_SIGNATURE)

\* A statement that leaves the signature out and converts the partial
\* operation without build_uo's tests.
prepare_uo_unchecked(b, a, l) ==
  LET b1 == [fill_uo(b, a, l) EXCEPT !.uo.signature = None]
  IN [builder |-> b1, ok |-> TRUE, err |-> <<>>, uo |-> UserOperation_from(b1.uo)]

\* The statement `let uo = uo_builder.set_uo_sender(..)...build_uo()?`.
prepare_uo(b, a, l) ==
  LET b1 == fill_uo(b, a, l)
      r == build_uo(b1)
  IN [builder |-> b1, ok |-> r.ok, err |-> r.err, uo |-> r.uo]

\* How an action ends on a request that did not succeed with `?`.
ReturnOutcome(out) ==
  IF out.tag = "Panic" THEN Return(RetPanic) ELSE Return(RetErr(out.tag))

\* fill, build_uo, sign_uo, estimate_user_operation_gas and the three gas
\* locals (lines 321-348, 550-581).
EstimateStep(kind) ==
  /\ pc = "estimate"
  /\ act.kind = kind
  /\ LET r == prepare_uo(builder, act, locals)
         b1 == r.builder
     IN /\ builder' = b1
        /\ IF ~r.ok
             THEN /\ Return(RetErr(r.err[1]))
                  /\ UNCHANGED << log, locals >>
             ELSE \E reply \in EstimateReplies :
                    LET out == rpc_outcome(reply)
                    IN /\ log' = Append(log, Entry("eth_estimateUserOperationGas",
                                                   sign_uo(r.uo), b1.uo, <<>>, out))
                       /\ IF out.tag = "Ok"
                            THEN /\ pc' = "loop"
                                 /\ locals' =
                                      [locals EXCEPT
                                         !.pre_verification_gas = unwrap(out.result).pre_verification_gas,
                                         !.call_gas_limit = unwrap(out.result).call_gas_limit,
                                         !.verification_gas_limit =
                                            unwrap(out.result).verification_gas_limit + 10000]
                                 /\ UNCHANGED result
                            ELSE ReturnOutcome(out) /\ UNCHANGED locals
  /\ UNCHANGED << act, wallet_map, build_rec, resp_body, resp_out, sup, cli, calls >>

call_estimate == EstimateStep("call")
send_eth_estimate == EstimateStep("send_eth")

\* The eth_sendUserOperation requests issued so far.
SendIndexes == { i \in 1..Len(log) : log[i].method = "eth_sendUserOperation" }
SendCount == Cardinality(SendIndexes)

\* Loop setters that leave the two fee fields as the first setter chain put
\* them.
set_gas_without_fees(b, l) ==
  set_uo_verification_gas_limit(
   set_uo_call_gas_limit(
    set_uo_pre_verification_gas(b, l.pre_verification_gas),
    l.call_gas_limit),
   l.verification_gas_limit)

\* The setters at the head of each loop iteration (lines 351-356, 584-589).
\* Loop setters that also take a fresh nonce for every attempt.
set_gas_fresh_nonce(b, l) ==
  set_uo_nonce(
   set_uo_max_priority_fee_per_gas(
    set_uo_max_fee_per_gas(
     set_uo_verification_gas_limit(
      set_uo_call_gas_limit(
       set_uo_pre_verification_gas(b, l.pre_verification_gas),
       l.call_gas_limit),
      l.verification_gas_limit),
     l.gas_price),
    l.priority_fee),
   l.nonce + SendCount)

set_gas(b, l) ==
  set_uo_max_priority_fee_per_gas(
   set_uo_max_fee_per_gas(
    set_uo_verification_gas_limit(
     set_uo_call_gas_limit(
      set_uo_pre_verification_gas(b, l.pre_verification_gas),
      l.call_gas_limit),
     l.verification_gas_limit),
    l.gas_price),
   l.priority_fee)

\* A retry that takes the rejected value of the message instead of the hint.
retry_adjust_first_number(l, out, vgl_step) ==
  IF out.tag = "CallGasLimitError" THEN [l EXCEPT !.call_gas_limit = out.n]
  ELSE IF out.tag = "PreVerificationGasError" THEN [l EXCEPT !.pre_verification_gas = out.n]
  ELSE [l EXCEPT !.verification_gas_limit = @ + vgl_step]

\* A retry whose verification gas step is the same in both actions.
retry_adjust_one_step(l, out, vgl_step) ==
  IF out.tag = "CallGasLimitError" THEN [l EXCEPT !.call_gas_limit = out.m]
  ELSE IF out.tag = "PreVerificationGasError" THEN [l EXCEPT !.pre_verification_gas = out.m]
  ELSE [l EXCEPT !.verification_gas_limit = @ + 10000]

\* The three gas branches of the retry (lines 369-383, 602-616).
retry_adjust(l, out, vgl_step) ==
  IF out.tag = "CallGasLimitError" THEN [l EXCEPT !.call_gas_limit = out.m]
  ELSE IF out.tag = "PreVerificationGasError" THEN [l EXCEPT !.pre_verification_gas = out.m]
  ELSE [l EXCEPT !.verification_gas_limit = @ + vgl_step]

\* One iteration of `while uo_builder.uo_hash().is_none()` (lines 350-393,
\* 583-626) against a bundler that answers with one of replies; next is
\* where the action stands when the iteration ends without returning. The
\* log keeps the first MaxSends sends.
LoopIteration(kind, vgl_step, replies, next) ==
  /\ pc = "loop"
  /\ act.kind = kind
  /\ is_none(builder.uo_hash)
  /\ LET b1 == set_gas(builder, locals)
         r == build_uo(b1)
     IN IF ~r.ok
          THEN /\ Return(RetErr(r.err[1]))
               /\ builder' = b1
               /\ UNCHANGED << log, locals >>
          ELSE \E reply \in replies :
                 LET out == rpc_outcome(reply)
                 IN /\ log' = IF SendCount < MaxSends
                                THEN Append(log, Entry("eth_sendUserOperation",
                                                       sign_uo(r.uo), b1.uo, <<>>, out))
                                ELSE log
                    /\ IF out.tag = "Ok"
                         THEN /\ builder' = set_uo_hash(b1, unwrap(out.result))
                              /\ locals' = [locals EXCEPT !.uo_hash = out.result]
                              /\ pc' = next
                              /\ UNCHANGED result
                       ELSE IF out.tag = "Panic"
                         THEN /\ Return(RetPanic)
                              /\ builder' = b1
                              /\ UNCHANGED locals
                       ELSE IF out.custom /\ out.tag \in GasErrors
                         THEN /\ locals' = retry_adjust(locals, out, vgl_step)
                              /\ builder' = b1
                              /\ pc' = next
                              /\ UNCHANGED result
                       ELSE IF out.custom
                         THEN /\ Return(RetErr("UnknownError"))
                              /\ builder' = b1
                              /\ UNCHANGED locals
                       ELSE /\ builder' = b1
                            /\ pc' = next
                            /\ UNCHANGED << result, locals >>
  /\ UNCHANGED << act, wallet_map, build_rec, resp_body, resp_out, sup, cli, calls >>

\* The iterations whose sends the log has room for.
LoopStep(kind, vgl_step) ==
  /\ SendCount < MaxSends
  /\ LoopIteration(kind, vgl_step, SendReplies, "loop")

call_loop == LoopStep("call", 10000)
send_eth_loop == LoopStep("send_eth", 1000)

\* The loop's exit and the return of the hash (lines 394-396, 627-629).
LoopExit(kind) ==
  /\ pc = "loop"
  /\ act.kind = kind
  /\ is_some(builder.uo_hash)
  /\ Return(RetOk(unwrap(locals.uo_hash)))
  /\ UNCHANGED << act, builder, locals, wallet_map, log, build_rec, resp_body, resp_out, sup, cli, calls >>

call_return == LoopExit("call")
send_eth_return == LoopExit("send_eth")

\* ------------------------------------------------------------- deploy_scw
\* The factory's getAddress(owner, salt): a function of the factory, the
\* owner and the salt.
generate_address(factory_address, owner, salt) == <<"cf", factory_address, owner, salt>>

\* The factory's createAccount(owner, salt) calldata.
create_account(owner, salt) == <<"createAccount", owner, salt>>

\* UserOperationBuilder::set_scw_address. The argument of the factory call is
\* built first (`self.salt.expect(..)` panics on None), then the factory is
\* queried; answered tells whether the query returned an address or an error.
\* The address returned is stored whatever scw_address held before.
set_scw_address(b, answered) ==
  IF is_none(b.salt)
    THEN [panic |-> TRUE, queried |-> FALSE, ok |-> FALSE, builder |-> b, address |-> ZeroAddress]
  ELSE IF ~answered
    THEN [panic |-> FALSE, queried |-> TRUE, ok |-> FALSE, builder |-> b, address |-> ZeroAddress]
  ELSE LET a == generate_address(b.factory_address, b.signer_address, unwrap(b.salt))
       IN [panic |-> FALSE, queried |-> TRUE, ok |-> TRUE,
           builder |-> [b EXCEPT !.scw_address = Some(a)], address |-> a]

\* create_scw_deployment_uo, lines 728-736 (entered from deploy_scw, line 650).
\* caller is the record of who called deploy_scw; pre_fund and salt are
\* deploy_scw's second and third parameters.
deploy_scw_enter(caller, wallet_name, pre_fund, salt) ==
  LET nb == UserOperationBuilder_new(SignerAddress, wallet_name, None, Some(salt))
  IN /\ act' = [caller EXCEPT !.kind = "deploy_scw", !.wallet_name = wallet_name,
                              !.pre_fund = pre_fund, !.salt = salt]
     /\ IF ~nb.ok
          THEN Return(RetErr("WalletNotSupported")) /\ UNCHANGED builder
          ELSE /\ pc' = "deploy_set_scw_address"
               /\ builder' = nb.builder
               /\ UNCHANGED result

deploy_scw_start ==
  /\ pc = "idle"
  /\ \E wallet_name \in WalletNames, pre_fund \in PreFunds, salt \in Salts :
       deploy_scw_enter(NoAct, wallet_name, pre_fund, salt)
  /\ UNCHANGED << locals, wallet_map, log, build_rec, resp_body, resp_out, sup, cli, calls >>

\* deploy_random_scw (lines 499-508): deploy_scw is called with the random
\* number as its second argument and the caller's pre_fund as its third.
deploy_random_scw_start ==
  /\ pc = "idle"
  /\ \E wallet_name \in WalletNames, pre_fund \in PreFunds, random \in RandomU64s :
       deploy_scw_enter([NoAct EXCEPT !.via = "deploy_random_scw",
                                      !.caller_pre_fund = pre_fund, !.random = random],
                        wallet_name, random, pre_fund)
  /\ UNCHANGED << locals, wallet_map, log, build_rec, resp_body, resp_out, sup, cli, calls >>

\* UserOperationBuilder::set_scw_address (called at line 739): the factory is
\* queried and the answer stored.
deploy_set_scw_address ==
  /\ pc = "deploy_set_scw_address"
  /\ \E answered \in BOOLEAN :
       LET r == set_scw_address(builder, answered)
       IN /\ builder' = r.builder
          /\ log' = IF r.queried
                      THEN Append(log, PlainEntry("getAddress", <<builder.signer_address, builder.salt>>,
                                                  IF r.ok THEN "Ok" ELSE "MiddlewareError"))
                      ELSE log
          /\ IF r.panic THEN Return(RetPanic)
             ELSE IF ~r.ok THEN Return(RetErr("MiddlewareError"))
             ELSE pc' = "deploy_get_code" /\ UNCHANGED result
  /\ UNCHANGED << act, locals, wallet_map, build_rec, resp_body, resp_out, sup, cli, calls >>

\* provider.get_code and the already-deployed test (lines 744-751).
deploy_get_code ==
  /\ pc = "deploy_get_code"
  /\ \E code \in CodeAnswers :
       /\ log' = Append(log, PlainEntry("eth_getCode", unwrap(builder.scw_address), code))
       /\ locals' = [locals EXCEPT !.code = code]
       /\ IF code = "error" THEN Return(RetErr("MiddlewareError"))
          ELSE IF ~code_is_empty(code) THEN Return(RetErr("SmartContractWalletHasBeenDeployed"))
          ELSE pc' = "deploy_fill" /\ UNCHANGED result
  /\ UNCHANGED << act, builder, wallet_map, build_rec, resp_body, resp_out, sup, cli, calls >>

\* A setter chain that leaves init_code empty.
fill_deployment_uo_without_init_code(b, nonce, init_code, execution_calldata) ==
  [b EXCEPT !.uo =
     [sender |-> Some(unwrap(b.scw_address)), nonce |-> Some(nonce),
      init_code |-> Some(EmptyBytes), call_data |-> Some(execution_calldata),
      call_gas_limit |-> Some(1), pre_verification_gas |-> Some(1),
      verification_gas_limit |-> Some(1000000), max_fee_per_gas |-> Some(1),
      max_priority_fee_per_gas |-> Some(1), paymaster_and_data |-> Some(EmptyBytes),
      signature |-> Some(DUMMY_SIGNATURE)]]

\* The setter chain of create_scw_deployment_uo (lines 770-781).
fill_deployment_uo(b, nonce, init_code, execution_calldata) ==
  set_uo_signature(
   set_uo_paymaster_and_data(
    set_uo_max_priority_fee_per_gas(
     set_uo_max_fee_per_gas(
      set_uo_verification_gas_limit(
       set_uo_pre_verification_gas(
        set_uo_call_gas_limit(
         set_uo_calldata(
          set_uo_init_code(
           set_uo_nonce(
            set_uo_sender(b, unwrap(b.scw_address)),
            nonce),
           init_code),
          execution_calldata),
         1),
        1),
       1000000),
      1),
     1),
    EmptyBytes),
   DUMMY_SIGNATURE)

\* provider.get_transaction_count, init_code, calldata and the setter chain
\* (lines 754-783).
deploy_fill ==
  /\ pc = "deploy_fill"
  /\ \E ans \in { Some(n) : n \in Nonces } \cup {None} :
       /\ log' = Append(log, PlainEntry("eth_getTransactionCount", unwrap(builder.scw_address),
                                        IF is_some(ans) THEN "Ok" ELSE "MiddlewareError"))
       /\ IF is_none(ans)
            THEN Return(RetErr("MiddlewareError")) /\ UNCHANGED << builder, locals >>
            ELSE /\ builder' =
                      fill_deployment_uo(builder, unwrap(ans),
                        << builder.factory_address,
                           create_account(builder.signer_address, act.salt) >>,
                        execute(ZeroAddress, 0, EmptyBytes))
                 /\ locals' = [locals EXCEPT !.nonce = unwrap(ans)]
                 /\ pc' = "deploy_prefund"
                 /\ UNCHANGED result
  /\ UNCHANGED << act, wallet_map, build_rec, resp_body, resp_out, sup, cli, calls >>

\* A transfer whose failure is not propagated: the action goes on to the
\* estimate whether or not the transfer went through.
deploy_prefund_unchecked ==
  /\ pc = "deploy_prefund"
  /\ \E confirmed \in BOOLEAN :
       log' = Append(log, PlainEntry("eth_sendTransaction",
                                     <<builder.signer_address, unwrap(builder.scw_address), act.pre_fund>>,
                                     IF confirmed THEN "Ok" ELSE "MiddlewareError"))
  /\ pc' = "deploy_estimate"
  /\ UNCHANGED << act, builder, locals, wallet_map, result, build_rec, resp_body, resp_out, sup, cli, calls >>

\* The pre-funding transfer, sent and awaited (lines 652-666).
deploy_prefund ==
  /\ pc = "deploy_prefund"
  /\ \E confirmed \in BOOLEAN :
       /\ log' = Append(log, PlainEntry("eth_sendTransaction",
                                        <<builder.signer_address, unwrap(builder.scw_address), act.pre_fund>>,
                                        IF confirmed THEN "Ok" ELSE "MiddlewareError"))
       /\ IF confirmed
            THEN pc' = "deploy_estimate" /\ UNCHANGED result
            ELSE Return(RetErr("MiddlewareError"))
  /\ UNCHANGED << act, builder, locals, wallet_map, build_rec, resp_body, resp_out, sup, cli, calls >>

\* build_uo, sign_uo, estimate_user_operation_gas (lines 668-671).
deploy_estimate ==
  /\ pc = "deploy_estimate"
  /\ LET r == build_uo(builder)
     IN IF ~r.ok
          THEN Return(RetErr(r.err[1])) /\ UNCHANGED << log, locals >>
          ELSE \E reply \in EstimateReplies :
                 LET out == rpc_outcome(reply)
                 IN /\ log' = Append(log, Entry("eth_estimateUserOperationGas",
                                                sign_uo(r.uo), builder.uo, <<>>, out))
                    /\ IF out.tag = "Ok"
                         THEN /\ pc' = "deploy_fees"
                              /\ locals' =
                                   [locals EXCEPT
                                      !.pre_verification_gas = unwrap(out.result).pre_verification_gas,
                                      !.call_gas_limit = unwrap(out.result).call_gas_limit,
                                      !.verification_gas_limit = unwrap(out.result).verification_gas_limit]
                              /\ UNCHANGED result
                         ELSE ReturnOutcome(out) /\ UNCHANGED locals
  /\ UNCHANGED << act, builder, wallet_map, build_rec, resp_body, resp_out, sup, cli, calls >>

\* estimate_eip1559_fees and the gas setters (lines 673-691); locals holds the
\* estimate result.
deploy_fees ==
  /\ pc = "deploy_fees"
  /\ \E ans \in FeeAnswers :
       /\ log' = Append(log, PlainEntry("eth_feeHistory", ans,
                                        IF is_some(ans) THEN "Ok" ELSE "MiddlewareError"))
       /\ IF is_none(ans)
            THEN Return(RetErr("MiddlewareError")) /\ UNCHANGED << builder, locals >>
            ELSE /\ locals' = [locals EXCEPT !.gas_price = unwrap(ans)[1],
                                             !.priority_fee = unwrap(ans)[2]]
                 /\ builder' =
                      set_uo_max_priority_fee_per_gas(
                       set_uo_max_fee_per_gas(
                        set_uo_verification_gas_limit(
                         set_uo_call_gas_limit(
                          set_uo_pre_verification_gas(builder, locals.pre_verification_gas + 1000),
                          locals.call_gas_limit * 2),
                         locals.verification_gas_limit),
                        unwrap(ans)[1]),
                       unwrap(ans)[2])
                 /\ pc' = "deploy_send"
                 /\ UNCHANGED result
  /\ UNCHANGED << act, wallet_map, build_rec, resp_body, resp_out, sup, cli, calls >>

\* An insert that adds no entry.
wallet_map_insert_nothing(m, scw_address) == m

\* self.wallet_map.insert(scw_address, ..) (lines 699-701); the map is
\* modelled by its key set.
wallet_map_insert(m, scw_address) == m \cup {scw_address}

\* A deploy_scw that enters the wallet in the map before it sends.
deploy_send_map_first ==
  /\ pc = "deploy_send"
  /\ LET r == build_uo(builder)
     IN IF ~r.ok
          THEN Return(RetErr(r.err[1])) /\ UNCHANGED << log, builder, locals, wallet_map >>
          ELSE \E reply \in SendReplies :
                 LET out == rpc_outcome(reply)
                 IN /\ log' = Append(log, Entry("eth_sendUserOperation",
                                                sign_uo(r.uo), builder.uo, <<>>, out))
                    /\ wallet_map' = wallet_map_insert(wallet_map, unwrap(builder.scw_address))
                    /\ IF out.tag = "Ok"
                         THEN /\ builder' = set_uo_hash(builder, unwrap(out.result))
                              /\ locals' = [locals EXCEPT !.uo_hash = out.result]
                              /\ Return(RetOk(<<unwrap(out.result), unwrap(builder.scw_address)>>))
                         ELSE /\ ReturnOutcome(out)
                              /\ UNCHANGED << builder, locals >>
  /\ UNCHANGED << act, build_rec, resp_body, resp_out, sup, cli, calls >>

\* build_uo, sign_uo, send_user_operation, set_uo_hash, the map entry and the
\* return (lines 693-702).
deploy_send ==
  /\ pc = "deploy_send"
  /\ LET r == build_uo(builder)
     IN IF ~r.ok
          THEN Return(RetErr(r.err[1])) /\ UNCHANGED << log, builder, locals, wallet_map >>
          ELSE \E reply \in SendReplies :
                 LET out == rpc_outcome(reply)
                 IN /\ log' = Append(log, Entry("eth_sendUserOperation",
                                                sign_uo(r.uo), builder.uo, <<>>, out))
                    /\ IF out.tag = "Ok"
                         THEN /\ builder' = set_uo_hash(builder, unwrap(out.result))
                              /\ locals' = [locals EXCEPT !.uo_hash = out.result]
                              /\ wallet_map' = wallet_map_insert(wallet_map, unwrap(builder.scw_address))
                              /\ Return(RetOk(<<unwrap(out.result), unwrap(builder.scw_address)>>))
                         ELSE /\ ReturnOutcome(out)
                              /\ UNCHANGED << builder, locals, wallet_map >>
  /\ UNCHANGED << act, build_rec, resp_body, resp_out, sup, cli, calls >>

\* --------------------------------------------------- build_random_address
\* build_random_address (lines 479-489): a builder with a random salt, one
\* set_scw_address call, and the address is returned.
build_random_address ==
  /\ pc = "idle"
  /\ \E wallet_name \in WalletNames, salt \in Salts, answered \in BOOLEAN :
       LET nb == UserOperationBuilder_new(SignerAddress, wallet_name, None, Some(salt))
           r == set_scw_address(nb.builder, answered)
       IN /\ act' = [NoAct EXCEPT !.kind = "build_random_address",
                                  !.wallet_name = wallet_name, !.salt = salt]
          /\ IF ~nb.ok
               THEN /\ Return(RetErr("WalletNotSupported"))
                    /\ UNCHANGED << builder, log >>
               ELSE /\ builder' = r.builder
                    /\ log' = IF r.queried
                                THEN Append(log, PlainEntry("getAddress",
                                                            <<nb.builder.signer_address, nb.builder.salt>>,
                                                            IF r.ok THEN "Ok" ELSE "MiddlewareError"))
                                ELSE log
                    /\ IF r.panic THEN Return(RetPanic)
                       ELSE IF ~r.ok THEN Return(RetErr("MiddlewareError"))
                       ELSE Return(RetOk(r.address))
  /\ UNCHANGED << locals, wallet_map, build_rec, resp_body, resp_out, sup, cli, calls >>

\* ------------------------------------------- get_user_operation_receipt
\* The result member of an eth_getUserOperationReceipt reply: JSON null
\* while the operation is not mined, the receipt object once it is.
JsonNull == [is_null |-> TRUE, user_op_hash |-> "none"]
ReceiptJson(h) == [is_null |-> FALSE, user_op_hash |-> h]

ReceiptReplies ==
  { Reply(TRUE, BodyResult(ReceiptJson(h))) : h \in UserOperationHashes } \cup
  { Reply(TRUE, BodyResult(JsonNull)),
    Reply(TRUE, BodyError(MsgOther)),
    Reply(TRUE, BodyGarbage),
    ReplyHttpFailure }

\* UserOpMiddleware::get_user_operation_receipt after the request is built:
\* `.send().await?`, then `.json::<Response<UserOperationReceipt>>().await?`,
\* which needs jsonrpc, id and a result that is a receipt object, then
\* Ok(response.result). handle_response is not used.
receipt_outcome(reply) ==
  IF ~reply.http_ok THEN OutErr("ReqwestError")
  ELSE IF /\ reply.body.text_ok
          /\ reply.body.envelope
          /\ is_some(reply.body.result)
          /\ ~unwrap(reply.body.result).is_null
    THEN OutOk(unwrap(reply.body.result))
  ELSE OutErr("ReqwestError")

get_user_operation_receipt ==
  /\ pc = "idle"
  /\ \E uo_hash \in UserOperationHashes, reply \in ReceiptReplies :
       LET out == receipt_outcome(reply)
       IN /\ act' = [NoAct EXCEPT !.kind = "get_user_operation_receipt"]
          /\ log' = Append(log, Entry("eth_getUserOperationReceipt", NoUo, EmptyPartial,
                                      << uo_hash, reply >>, out))
          /\ Return(IF out.tag = "Ok" THEN RetOk(unwrap(out.result)) ELSE RetErr(out.tag))
  /\ UNCHANGED << builder, locals, wallet_map, build_rec, resp_body, resp_out, sup, cli, calls >>

\* ------------------------------------------------------ the client's spec
Next ==
  \/ call_start
  \/ call_get_code
  \/ call_get_nonce
  \/ call_fees
  \/ call_estimate
  \/ call_loop
  \/ call_return
  \/ send_eth_start
  \/ send_eth_get_code
  \/ send_eth_get_nonce
  \/ send_eth_fees
  \/ send_eth_estimate
  \/ send_eth_loop
  \/ send_eth_return
  \/ deploy_scw_start
  \/ deploy_random_scw_start
  \/ deploy_set_scw_address
  \/ deploy_get_code
  \/ deploy_fill
  \/ deploy_prefund
  \/ deploy_estimate
  \/ deploy_fees
  \/ deploy_send
  \/ build_random_address
  \/ get_user_operation_receipt

Spec == Init /\ [][Next]_vars

\* ------------------------------------------------- a bundler that insists
\* call and send_eth against a bundler that answers every
\* eth_sendUserOperation with the same gas error and the same numbers;
\* resp_body is that answer.
StubbornBodies ==
  { BodyError(MsgCall(Numeral(1), Numeral(3))),
    BodyError(MsgPre(Numeral(1), Numeral(3))) }

InitStubborn ==
  /\ pc = "idle"
  /\ act = NoAct
  /\ builder = NoBuilder
  /\ locals = NoLocals
  /\ wallet_map = wallet_map_new
  /\ log = <<>>
  /\ result = NoResult
  /\ build_rec = NoBuildRec
  /\ resp_body \in StubbornBodies
  /\ resp_out = OutErr("none")
  /\ sup = NoSup
  /\ cli = NoCli
  /\ calls = NoCalls

stubborn_call_loop ==
  LoopIteration("call", 10000, { Reply(TRUE, resp_body) }, "loop_test")
stubborn_send_eth_loop ==
  LoopIteration("send_eth", 1000, { Reply(TRUE, resp_body) }, "loop_test")

\* The test of `while uo_builder.uo_hash().is_none()` (lines 350, 583)
\* after an iteration: the body runs again while no hash is recorded.
stubborn_loop_test ==
  /\ pc = "loop_test"
  /\ is_none(builder.uo_hash)
  /\ pc' = "loop"
  /\ UNCHANGED << act, builder, locals, wallet_map, log, result,
                  build_rec, resp_body, resp_out, sup, cli, calls >>

NextStubborn ==
  \/ call_start
  \/ call_get_code
  \/ call_get_nonce
  \/ call_fees
  \/ call_estimate
  \/ stubborn_call_loop
  \/ send_eth_start
  \/ send_eth_get_code
  \/ send_eth_get_nonce
  \/ send_eth_fees
  \/ send_eth_estimate
  \/ stubborn_send_eth_loop
  \/ stubborn_loop_test

SpecStubborn == InitStubborn /\ [][NextStubborn]_vars

\* The action goes on for as long as it has a step to take: every request
\* it makes is answered.
SpecStubbornFair == SpecStubborn /\ WF_vars(NextStubborn)

\* ------------------------------------------------ two calls on one wallet
\* `call(&self, ..)` borrows the client shared: two calls can be polled
\* together. Both are for the same wallet; the bundler accepts an operation
\* or rejects it for a reason other than gas.
Request(p, method, nonce, uo) ==
  [task |-> p, method |-> method, nonce |-> nonce, uo |-> uo]

InitOverlap ==
  /\ pc = "idle"
  /\ act = NoAct
  /\ builder = NoBuilder
  /\ locals = NoLocals
  /\ wallet_map = wallet_map_new
  /\ log = <<>>
  /\ result = NoResult
  /\ build_rec = NoBuildRec
  /\ resp_body = BodyGarbage
  /\ resp_out = OutErr("none")
  /\ sup = NoSup
  /\ cli = NoCli
  /\ calls \in { [NoCalls EXCEPT !.entry_point_nonce = n] : n \in Nonces }

\* How one of the two calls returns.
o_return(t, r) == [t EXCEPT !.pc = "done", !.ret = r]

\* call, lines 291-306
o_call_start(p) ==
  /\ calls.task[p].pc = "idle"
  /\ \E wallet_name \in WalletNames, scw \in ScwAddresses, tx \in TxInputs :
       LET t == uo_calldata_from_tx(tx)
           nb == UserOperationBuilder_new(SignerAddress, wallet_name, Some(scw), None)
       IN calls' =
            [calls EXCEPT !.task[p] =
               IF t.panic THEN o_return(@, RetPanic)
               ELSE IF ~nb.ok THEN o_return(@, RetErr("WalletNotSupported"))
               ELSE [@ EXCEPT !.pc = "get_code",
                              !.builder = nb.builder,
                              !.act = [NoAct EXCEPT !.kind = "call",
                                                    !.wallet_name = wallet_name,
                                                    !.scw_address = scw,
                                                    !.dest = t.dest,
                                                    !.value = t.value,
                                                    !.data = t.data]]]
  /\ UNCHANGED << pc, act, builder, locals, wallet_map, log, result,
                  build_rec, resp_body, resp_out, sup, cli >>

\* call, lines 308-315
o_get_code(p) ==
  /\ calls.task[p].pc = "get_code"
  /\ \E code \in CodeAnswers :
       calls' =
         [calls EXCEPT !.task[p] =
            IF code = "error" THEN o_return(@, RetErr("MiddlewareError"))
            ELSE IF code_is_empty(code)
              THEN o_return(@, RetErr("SmartContractWalletHasNotBeenDeployed"))
            ELSE [@ EXCEPT !.pc = "get_nonce", !.locals.code = code]]
  /\ UNCHANGED << pc, act, builder, locals, wallet_map, log, result,
                  build_rec, resp_body, resp_out, sup, cli >>

\* A client that hands out the nonces itself: the nonce read plus the
\* number of its calls that hold a nonce and have not returned.
o_get_nonce_allocating(p) ==
  /\ calls.task[p].pc = "get_nonce"
  /\ \E n \in { m \in Nonces : m >= calls.entry_point_nonce } :
       LET held == { q \in CallTasks : calls.task[q].pc \in {"fees", "estimate", "loop"} }
       IN calls' =
            [calls EXCEPT !.entry_point_nonce = n,
                          !.requests = Append(@, Request(p, "getNonce", n, NoUo)),
                          !.task[p] = [@ EXCEPT !.pc = "fees",
                                                !.locals.nonce = n + Cardinality(held)]]
  /\ UNCHANGED << pc, act, builder, locals, wallet_map, log, result,
                  build_rec, resp_body, resp_out, sup, cli >>

\* call, lines 317-319: the wallet's nonce as the EntryPoint holds it when
\* the read is answered; it never decreases.
o_get_nonce(p) ==
  /\ calls.task[p].pc = "get_nonce"
  /\ \/ \E n \in { m \in Nonces : m >= calls.entry_point_nonce } :
          calls' =
            [calls EXCEPT !.entry_point_nonce = n,
                          !.requests = Append(@, Request(p, "getNonce", n, NoUo)),
                          !.task[p] = [@ EXCEPT !.pc = "fees", !.locals.nonce = n]]
     \/ calls' = [calls EXCEPT !.task[p] = o_return(@, RetErr("MiddlewareError"))]
  /\ UNCHANGED << pc, act, builder, locals, wallet_map, log, result,
                  build_rec, resp_body, resp_out, sup, cli >>

\* call, line 323
o_fees(p) ==
  /\ calls.task[p].pc = "fees"
  /\ \E ans \in FeeAnswers :
       calls' =
         [calls EXCEPT !.task[p] =
            IF is_none(ans) THEN o_return(@, RetErr("MiddlewareError"))
            ELSE [@ EXCEPT !.pc = "estimate",
                           !.locals.gas_price = unwrap(ans)[1],
                           !.locals.priority_fee = unwrap(ans)[2]]]
  /\ UNCHANGED << pc, act, builder, locals, wallet_map, log, result,
                  build_rec, resp_body, resp_out, sup, cli >>

\* call, lines 325-348
o_estimate(p) ==
  /\ calls.task[p].pc = "estimate"
  /\ LET t == calls.task[p]
         r == prepare_uo(t.builder, t.act, t.locals)
     IN IF ~r.ok
          THEN calls' = [calls EXCEPT !.task[p] =
                           o_return([@ EXCEPT !.builder = r.builder], RetErr(r.err[1]))]
          ELSE \E reply \in EstimateReplies :
                 LET out == rpc_outcome(reply)
                 IN calls' =
                      [calls EXCEPT !.task[p] =
                         IF out.tag = "Ok"
                           THEN [@ EXCEPT
                                   !.pc = "loop",
                                   !.builder = r.builder,
                                   !.locals.pre_verification_gas =
                                      unwrap(out.result).pre_verification_gas,
                                   !.locals.call_gas_limit =
                                      unwrap(out.result).call_gas_limit,
                                   !.locals.verification_gas_limit =
                                      unwrap(out.result).verification_gas_limit + 10000]
                         ELSE o_return([@ EXCEPT !.builder = r.builder],
                                       IF out.tag = "Panic" THEN RetPanic
                                       ELSE RetErr(out.tag))]
  /\ UNCHANGED << pc, act, builder, locals, wallet_map, log, result,
                  build_rec, resp_body, resp_out, sup, cli >>

\* The answers of a bundler that accepts the operation or rejects it for a
\* reason other than gas.
OverlapSendReplies ==
  { Reply(TRUE, BodyResult(h)) : h \in UserOperationHashes } \cup
  { Reply(TRUE, BodyError(MsgOther)) }

\* call, lines 350-396: the iteration of the loop, and the return of the
\* hash when the send has succeeded.
o_send(p) ==
  /\ calls.task[p].pc = "loop"
  /\ LET t == calls.task[p]
         b1 == set_gas(t.builder, t.locals)
         r == build_uo(b1)
     IN IF ~r.ok
          THEN calls' = [calls EXCEPT !.task[p] =
                           o_return([@ EXCEPT !.builder = b1], RetErr(r.err[1]))]
          ELSE \E reply \in OverlapSendReplies :
                 LET out == rpc_outcome(reply)
                 IN calls' =
                      [calls EXCEPT
                         !.requests = Append(@, Request(p, "eth_sendUserOperation",
                                                        t.locals.nonce, sign_uo(r.uo))),
                         !.task[p] =
                           IF out.tag = "Ok"
                             THEN o_return([@ EXCEPT
                                              !.builder = set_uo_hash(b1, unwrap(out.result)),
                                              !.locals.uo_hash = out.result],
                                           RetOk(unwrap(out.result)))
                           ELSE o_return([@ EXCEPT !.builder = b1],
                                         RetErr("UnknownError"))]
  /\ UNCHANGED << pc, act, builder, locals, wallet_map, log, result,
                  build_rec, resp_body, resp_out, sup, cli >>

NextOverlap ==
  \E p \in CallTasks :
    \/ o_call_start(p)
    \/ o_get_code(p)
    \/ o_get_nonce(p)
    \/ o_fees(p)
    \/ o_estimate(p)
    \/ o_send(p)

SpecOverlap == InitOverlap /\ [][NextOverlap]_vars

TypeOK ==
  /\ pc \in {"idle", "done", "get_code", "get_nonce", "fees", "estimate", "loop",
             "deploy_set_scw_address", "deploy_get_code", "deploy_fill",
             "deploy_prefund", "deploy_estimate", "deploy_fees", "deploy_send"}
  /\ act.kind \in {"none", "call", "send_eth", "deploy_scw", "build_random_address",
                    "get_user_operation_receipt"}
  /\ result.tag \in {"none", "Ok", "Err", "Panic"}
  /\ (pc = "done") = (result.tag # "none")

\* ------------------------------------------------ the builder on its own
\* The builder driven by arbitrary setter calls and build_uo calls, so that
\* build_uo meets every subset of set fields.
FieldValues(f) ==
  IF f = "sender" THEN { <<"scw">> }
  ELSE IF f = "call_gas_limit" THEN {1, 7}
  ELSE IF f \in {"init_code", "call_data", "paymaster_and_data"} THEN { EmptyBytes }
  ELSE IF f = "signature" THEN { DUMMY_SIGNATURE }
  ELSE {1}

InitBuilder ==
  /\ pc = "builder"
  /\ act = NoAct
  /\ builder = UserOperationBuilder_new(SignerAddress, "simple-account", None, Some(1)).builder
  /\ locals = NoLocals
  /\ wallet_map = wallet_map_new
  /\ log = <<>>
  /\ result = NoResult
  /\ ExerciseIdle

\* A setter call: build_rec keeps which setter it was and the value given.
Setter(f, v, b1) ==
  /\ pc = "builder"
  /\ builder' = b1
  /\ build_rec' = [NoBuildRec EXCEPT !.op = "setter", !.name = f, !.value = Some(v)]
  /\ UNCHANGED << pc, act, locals, wallet_map, log, result, resp_body, resp_out, sup, cli, calls >>

b_set_uo_sender == \E v \in FieldValues("sender") :
  Setter("sender", v, set_uo_sender(builder, v))
b_set_uo_nonce == \E v \in FieldValues("nonce") :
  Setter("nonce", v, set_uo_nonce(builder, v))
b_set_uo_init_code == \E v \in FieldValues("init_code") :
  Setter("init_code", v, set_uo_init_code(builder, v))
b_set_uo_calldata == \E v \in FieldValues("call_data") :
  Setter("call_data", v, set_uo_calldata(builder, v))
b_set_uo_call_gas_limit == \E v \in FieldValues("call_gas_limit") :
  Setter("call_gas_limit", v, set_uo_call_gas_limit(builder, v))
b_set_uo_verification_gas_limit == \E v \in FieldValues("verification_gas_limit") :
  Setter("verification_gas_limit", v, set_uo_verification_gas_limit(builder, v))
b_set_uo_pre_verification_gas == \E v \in FieldValues("pre_verification_gas") :
  Setter("pre_verification_gas", v, set_uo_pre_verification_gas(builder, v))
b_set_uo_max_fee_per_gas == \E v \in FieldValues("max_fee_per_gas") :
  Setter("max_fee_per_gas", v, set_uo_max_fee_per_gas(builder, v))
b_set_uo_max_priority_fee_per_gas == \E v \in FieldValues("max_priority_fee_per_gas") :
  Setter("max_priority_fee_per_gas", v, set_uo_max_priority_fee_per_gas(builder, v))
b_set_uo_paymaster_and_data == \E v \in FieldValues("paymaster_and_data") :
  Setter("paymaster_and_data", v, set_uo_paymaster_and_data(builder, v))
b_set_uo_signature == \E v \in FieldValues("signature") :
  Setter("signature", v, set_uo_signature(builder, v))

\* A build_uo call: the builder is left as it is.
b_build_uo ==
  /\ pc = "builder"
  /\ LET r == build_uo(builder)
     IN build_rec' = [NoBuildRec EXCEPT !.called = TRUE, !.src = builder.uo, !.ok = r.ok,
                                        !.err = r.err, !.op = "build_uo"]
  /\ UNCHANGED << pc, act, builder, locals, wallet_map, log, result, resp_body, resp_out, sup, cli, calls >>

\* A set_uo_hash call.
b_set_uo_hash ==
  /\ pc = "builder"
  /\ \E h \in {"hash1"} :
       /\ builder' = set_uo_hash(builder, h)
       /\ build_rec' = [NoBuildRec EXCEPT !.op = "set_uo_hash", !.value = Some(h)]
  /\ UNCHANGED << pc, act, locals, wallet_map, log, result, resp_body, resp_out, sup, cli, calls >>

\* A set_wallet call: on Err the builder is as it was.
b_set_wallet ==
  /\ pc = "builder"
  /\ \E wallet_name \in WalletNames :
       LET r == set_wallet(builder, wallet_name)
       IN /\ builder' = r.builder
          /\ build_rec' = [NoBuildRec EXCEPT !.op = "set_wallet", !.name = wallet_name,
                                             !.ok = r.ok]
  /\ UNCHANGED << pc, act, locals, wallet_map, log, result, resp_body, resp_out, sup, cli, calls >>

\* A UserOperationBuilder::new call: on Ok the new builder takes the place of
\* the old one, on Err there is no new builder.
b_new ==
  /\ pc = "builder"
  /\ \E wallet_name \in WalletNames :
       LET nb == UserOperationBuilder_new(SignerAddress, wallet_name, None, Some(1))
       IN /\ builder' = IF nb.ok THEN nb.builder ELSE builder
          /\ build_rec' = [NoBuildRec EXCEPT !.op = "new", !.name = wallet_name, !.ok = nb.ok]
  /\ UNCHANGED << pc, act, locals, wallet_map, log, result, resp_body, resp_out, sup, cli, calls >>

NextBuilder ==
  \/ b_set_uo_sender
  \/ b_set_uo_nonce
  \/ b_set_uo_init_code
  \/ b_set_uo_calldata
  \/ b_set_uo_call_gas_limit
  \/ b_set_uo_verification_gas_limit
  \/ b_set_uo_pre_verification_gas
  \/ b_set_uo_max_fee_per_gas
  \/ b_set_uo_max_priority_fee_per_gas
  \/ b_set_uo_paymaster_and_data
  \/ b_set_uo_signature
  \/ b_build_uo
  \/ b_set_uo_hash
  \/ b_set_wallet
  \/ b_new

SpecBuilder == InitBuilder /\ [][NextBuilder]_vars

\* -------------------------------------------- set_scw_address on its own
\* A builder as new() makes it, with or without an address and a salt, on
\* which set_scw_address is called repeatedly. Each call appends to log the
\* factory query it made, if any, and then a record of the call: the
\* scw_address before and after it, and what it returned.
AddressBuilders ==
  { UserOperationBuilder_new(SignerAddress, w, scw, salt).builder :
      w \in {"simple-account", "simple-account-test"},
      scw \in {None} \cup { Some(a) : a \in ScwAddresses },
      salt \in {None} \cup { Some(x) : x \in Salts } }

InitAddress ==
  /\ pc = "address"
  /\ act = NoAct
  /\ builder \in AddressBuilders
  /\ locals = NoLocals
  /\ wallet_map = wallet_map_new
  /\ log = <<>>
  /\ result = NoResult
  /\ ExerciseIdle

AddressCalls == { i \in 1..Len(log) : log[i].method = "set_scw_address" }

a_set_scw_address ==
  /\ pc = "address"
  /\ Cardinality(AddressCalls) < MaxAddressCalls
  /\ \E answered \in BOOLEAN :
       LET r == set_scw_address(builder, answered)
           out == IF r.panic THEN OutPanic
                  ELSE IF r.ok THEN OutOk(r.address)
                  ELSE OutErr("MiddlewareError")
           query == IF r.queried
                      THEN << PlainEntry("getAddress", <<builder.signer_address, builder.salt>>,
                                         IF r.ok THEN "Ok" ELSE "MiddlewareError") >>
                      ELSE << >>
           call == Entry("set_scw_address", NoUo, EmptyPartial,
                         << builder.scw_address, r.builder.scw_address >>, out)
       IN /\ builder' = r.builder
          /\ log' = log \o query \o << call >>
          /\ pc' = IF r.panic THEN "done" ELSE pc
          /\ result' = IF r.panic THEN RetPanic
                       ELSE IF r.ok THEN RetOk(r.address)
                       ELSE RetErr("MiddlewareError")
  /\ UNCHANGED << act, locals, wallet_map, build_rec, resp_body, resp_out, sup, cli, calls >>

NextAddress == a_set_scw_address

SpecAddress == InitAddress /\ [][NextAddress]_vars

\* ------------------------------------------------------------ run_bundler
\* run_bundler (src/src/bundler.rs): a thread with its own runtime runs
\* run_until_ctrl_c(task). sup.main is the position of task, sup.facade the
\* position of the JSON-RPC task it spawns, sup.services the services that
\* are up, sup.events the steps taken so far, each with its success.
Ev(step, ok) == [step |-> step, ok |-> ok]

SendBundleModes == {"EthClient", "Flashbots"}

InitBundler ==
  /\ pc = "supervisor"
  /\ act = NoAct
  /\ builder = NoBuilder
  /\ locals = NoLocals
  /\ wallet_map = wallet_map_new
  /\ log = <<>>
  /\ result = NoResult
  /\ build_rec = NoBuildRec
  /\ resp_body = BodyGarbage
  /\ resp_out = OutErr("none")
  /\ sup \in { [NoSup EXCEPT !.main = "spawn_thread", !.send_bundle_mode = m,
                              !.http = h, !.ws = w] :
                  m \in SendBundleModes, h \in BOOLEAN, w \in BOOLEAN }
  /\ cli = NoCli
  /\ calls = NoCalls

\* The positions of the JSON-RPC task at which it is alive.
FacadeAlive == {"add_methods", "connect", "start", "serving"}

\* What runs on the runtime besides task: the services that are up and the
\* JSON-RPC task while it is alive.
RunningTasks(s) ==
  s.services \cup (IF s.facade \in FacadeAlive THEN {"facade"} ELSE {})

\* A return that leaves the runtime and what runs on it behind.
sup_return_keeps_runtime(s, r) ==
  [s EXCEPT !.main = "returned", !.ret = r]

\* run_until_ctrl_c has completed with r: block_on returns, the thread's
\* closure ends with r (lines 214-215) and drops the runtime, which ends what
\* still runs on it; then the thread is joined and run_bundler returns r
\* (lines 216-218).
sup_return(s, r) ==
  [s EXCEPT !.main = IF RunningTasks(s) = {} THEN "returned" ELSE "shutdown",
            !.ret = r]

\* A step of task that either succeeds, going to position to and bringing up
\* the services in started, or fails, in which case `?` carries the error
\* out of task, run_until_ctrl_c, block_on and the thread to the caller.
sup_step(from, step, to, started) ==
  /\ pc = "supervisor"
  /\ sup.main = from
  /\ \E ok \in BOOLEAN :
       sup' = IF ok
                THEN [sup EXCEPT !.main = to, !.events = Append(@, Ev(step, TRUE)),
                                 !.services = @ \cup started]
                ELSE sup_return([sup EXCEPT !.events = Append(@, Ev(step, FALSE))],
                                RetErr(step))
  /\ UNCHANGED << pc, act, builder, locals, wallet_map, log, result,
                  build_rec, resp_body, resp_out, cli, calls >>

\* std::thread::Builder::spawn (lines 82-84, 216)
sup_spawn_thread == sup_step("spawn_thread", "spawn_thread", "build_runtime", {})

\* tokio::runtime::Builder::build (lines 85-88)
sup_build_runtime == sup_step("build_runtime", "build_runtime", "register_signals", {})

\* run_until_ctrl_c: the signal handlers (lines 381-385)
sup_register_signals == sup_step("register_signals", "register_signals", "connect_eth_client", {})

\* Provider::try_from and client_version (lines 93-98)
sup_connect_eth_client == sup_step("connect_eth_client", "connect_eth_client", "get_chainid", {})

\* get_chainid (lines 100-101)
sup_get_chainid == sup_step("get_chainid", "get_chainid", "wallet", {})

\* Wallet::from_phrase and the data directory (lines 103-112)
sup_wallet == sup_step("wallet", "wallet", "uopool_service_run", {})

\* A start of the mempool service whose failure is not propagated.
sup_uopool_service_run_unchecked ==
  /\ pc = "supervisor"
  /\ sup.main = "uopool_service_run"
  /\ \E ok \in BOOLEAN :
       sup' = [sup EXCEPT !.main = "uopool_connect",
                          !.events = Append(@, Ev("uopool_service_run", ok)),
                          !.services = IF ok THEN @ \cup {"uopool"} ELSE @]
  /\ UNCHANGED << pc, act, builder, locals, wallet_map, log, result,
                  build_rec, resp_body, resp_out, cli, calls >>

\* uopool_service_run(..).await? (lines 114-134)
sup_uopool_service_run ==
  sup_step("uopool_service_run", "uopool_service_run", "uopool_connect", {"uopool"})

\* UoPoolClient::connect(..).await? (lines 136-139)
sup_uopool_connect ==
  sup_step("uopool_connect", "uopool_connect", "bundler_service_run", {})

\* bundler_service_run(..) (lines 141-165): a plain call, nothing to await
\* and no result to test.
sup_bundler_service_run ==
  /\ pc = "supervisor"
  /\ sup.main = "bundler_service_run"
  /\ sup' = [sup EXCEPT !.main = "spawn_facade",
                        !.events = Append(@, Ev("bundler_service_run", TRUE)),
                        !.services = @ \cup {"bundler"}]
  /\ UNCHANGED << pc, act, builder, locals, wallet_map, log, result,
                  build_rec, resp_body, resp_out, cli, calls >>

\* tokio::spawn of the JSON-RPC task (lines 167-168, 211); its JoinHandle is
\* dropped, and task goes on to pending() (line 212).
sup_spawn_facade ==
  /\ pc = "supervisor"
  /\ sup.main = "spawn_facade"
  /\ sup' = [sup EXCEPT !.main = "pending", !.facade = "add_methods",
                        !.events = Append(@, Ev("spawn_facade", TRUE))]
  /\ UNCHANGED << pc, act, builder, locals, wallet_map, log, result,
                  build_rec, resp_body, resp_out, cli, calls >>

\* A step of the JSON-RPC task: on failure `?` ends the spawned task with
\* the error, which nothing receives.
facade_step(from, step, to, started) ==
  /\ pc = "supervisor"
  /\ sup.main = "pending"
  /\ sup.facade = from
  /\ \E ok \in BOOLEAN :
       sup' = IF ok
                THEN [sup EXCEPT !.facade = to, !.events = Append(@, Ev(step, TRUE)),
                                 !.services = @ \cup started]
                ELSE [sup EXCEPT !.facade = "failed", !.events = Append(@, Ev(step, FALSE))]
  /\ UNCHANGED << pc, act, builder, locals, wallet_map, log, result,
                  build_rec, resp_body, resp_out, cli, calls >>

\* JsonRpcServer::new .. server.add_methods(..)? (lines 177-195)
facade_add_methods == facade_step("add_methods", "facade_add_methods", "connect", {})

\* BundlerClient::connect(..).await? (lines 197-201)
facade_connect == facade_step("connect", "facade_connect", "start", {})

\* server.start().await? (lines 203-207), then pending() (line 209)
facade_start == facade_step("start", "facade_start", "serving", {"facade"})

\* The positions at which task is suspended in an await, where select! can
\* complete on a signal instead.
AwaitPositions ==
  {"connect_eth_client", "get_chainid", "uopool_service_run", "uopool_connect", "pending"}

\* The positions before run_until_ctrl_c has set up ctrl_c and the SIGTERM
\* stream (lines 381-385): a signal still has its default disposition.
BeforeSignalHandlers == {"spawn_thread", "build_runtime", "register_signals"}

Signals == {"ctrl_c", "sigterm"}

\* The environment delivers ctrl-c or SIGTERM to the process. With the
\* handlers set up the signal is recorded for the select!; before that it
\* terminates the process.
sup_signal_delivered ==
  /\ pc = "supervisor"
  /\ sup.main \in BeforeSignalHandlers \cup AwaitPositions \cup
                  {"wallet", "bundler_service_run", "spawn_facade"}
  /\ sup.signal = "none"
  /\ \E sig \in Signals :
       sup' = IF sup.main \in BeforeSignalHandlers
                THEN [sup EXCEPT !.main = "killed", !.signal = sig,
                                 !.events = Append(@, Ev(sig, TRUE))]
                ELSE [sup EXCEPT !.signal = sig, !.events = Append(@, Ev(sig, TRUE))]
  /\ UNCHANGED << pc, act, builder, locals, wallet_map, log, result,
                  build_rec, resp_body, resp_out, cli, calls >>

\* run_until_ctrl_c: the ctrl_c or sigterm branch completes the select!
\* (lines 387-397): Ok(()) is returned.
sup_signal ==
  /\ pc = "supervisor"
  /\ sup.main \in AwaitPositions
  /\ sup.signal \in Signals
  /\ sup' = sup_return(sup, RetOk("unit"))
  /\ UNCHANGED << pc, act, builder, locals, wallet_map, log, result,
                  build_rec, resp_body, resp_out, cli, calls >>

StopStep(t) ==
  CASE t = "facade" -> "stop_facade"
    [] t = "bundler" -> "stop_bundler"
    [] t = "uopool" -> "stop_uopool"

\* The drop of the runtime (end of the closure, line 216) ends what runs on
\* it, one at a time in an order the code does not choose; with the last one
\* ended the thread finishes and run_bundler returns.
sup_runtime_drop ==
  /\ pc = "supervisor"
  /\ sup.main = "shutdown"
  /\ \E t \in RunningTasks(sup) :
       LET s1 == [sup EXCEPT !.services = @ \ {t},
                             !.facade = IF t = "facade" THEN "cancelled" ELSE @,
                             !.events = Append(@, Ev(StopStep(t), TRUE))]
       IN sup' = [s1 EXCEPT !.main = IF RunningTasks(s1) = {} THEN "returned" ELSE @]
  /\ UNCHANGED << pc, act, builder, locals, wallet_map, log, result,
                  build_rec, resp_body, resp_out, cli, calls >>

NextBundler ==
  \/ sup_spawn_thread
  \/ sup_build_runtime
  \/ sup_register_signals
  \/ sup_connect_eth_client
  \/ sup_get_chainid
  \/ sup_wallet
  \/ sup_uopool_service_run
  \/ sup_uopool_connect
  \/ sup_bundler_service_run
  \/ sup_spawn_facade
  \/ facade_add_methods
  \/ facade_connect
  \/ facade_start
  \/ sup_signal_delivered
  \/ sup_signal
  \/ sup_runtime_drop

SpecBundler == InitBundler /\ [][NextBundler]_vars

\* The runtime polls run_until_ctrl_c once a signal has woken it, and the
\* drop of the runtime runs to its end; the replies of the network and the
\* delivery of a signal are not the program's to promise.
SpecBundlerFair ==
  SpecBundler /\ WF_vars(sup_signal) /\ WF_vars(sup_runtime_drop)

\* ------------------------------------------------- the wallet subcommands
\* WalletSubcommands::run (src/src/config.rs), one process per invocation.
InitialFiles ==
  { File(FALSE, FALSE, EmptyConfig),
    File(TRUE, TRUE, EmptyConfig),
    File(TRUE, TRUE, Config(<< AddressKeyMapping(CliAddress(0)) >>,
                            EmptyConfig.address_scw_map)) }

InitCli ==
  /\ pc = "cli"
  /\ act = NoAct
  /\ builder = NoBuilder
  /\ locals = NoLocals
  /\ wallet_map = wallet_map_new
  /\ log = <<>>
  /\ result = NoResult
  /\ build_rec = NoBuildRec
  /\ resp_body = BodyGarbage
  /\ resp_out = OutErr("none")
  /\ sup = NoSup
  /\ calls = NoCalls
  /\ cli \in { [file |-> f, procs |-> [p \in Procs |-> [NoProc EXCEPT !.pc = "start"]]] :
                 f \in InitialFiles }

\* An invocation ends with r.
cli_return(p, r) == [cli EXCEPT !.procs[p].pc = "done", !.procs[p].ret = r]

\* NewKey: the mnemonic and its wallet are generated (lines 138-149).
cli_new_key_start ==
  /\ pc = "cli"
  /\ \E p \in Procs :
       /\ cli.procs[p].pc = "start"
       /\ cli' = [cli EXCEPT !.procs[p].cmd = "new-key", !.procs[p].pc = "read"]
  /\ UNCHANGED << pc, act, builder, locals, wallet_map, log, result,
                  build_rec, resp_body, resp_out, sup, calls >>

\* NewWalletAddress { wallet_name, salt, source_address } (lines 178-182)
cli_new_wallet_address_start ==
  /\ pc = "cli"
  /\ \E p \in Procs, wallet_name \in WalletNames, salt \in Salts,
        source_address \in {CliAddress(0), CliAddress(1)} :
       /\ cli.procs[p].pc = "start"
       /\ cli' = [cli EXCEPT !.procs[p].cmd = "new-wallet-address",
                             !.procs[p].pc = "read",
                             !.procs[p].wallet_name = wallet_name,
                             !.procs[p].salt = salt,
                             !.procs[p].source_address = source_address]
  /\ UNCHANGED << pc, act, builder, locals, wallet_map, log, result,
                  build_rec, resp_body, resp_out, sup, calls >>

\* address_key_map.push(AddressKeyMapping { .. }) (lines 159-167)
push_key(config, address) ==
  [config EXCEPT !.address_key_map = Append(@, AddressKeyMapping(address))]

\* address_scw_map.entry(address).or_insert_with(Vec::new).push(scw_address)
\* (lines 242-247)
push_scw(config, address, scw_address) ==
  [config EXCEPT !.address_scw_map[address] = Append(@, scw_address)]

\* File::open(..)?, read_to_string(..)? and serde_json::from_str(..).expect(..)
\* (lines 152-156, 184-188): a missing file is an Err, a content that does not
\* parse a panic; NewKey then pushes its entry onto its copy.
cli_read ==
  /\ pc = "cli"
  /\ \E p \in Procs :
       /\ cli.procs[p].pc = "read"
       /\ cli' = IF ~cli.file.exists THEN cli_return(p, RetErr("io"))
                 ELSE IF ~cli.file.valid THEN cli_return(p, RetPanic)
                 ELSE IF cli.procs[p].cmd = "new-key"
                   THEN [cli EXCEPT !.procs[p].read = cli.file.config,
                                    !.procs[p].config = push_key(cli.file.config, CliAddress(p)),
                                    !.procs[p].pc = "create"]
                 ELSE [cli EXCEPT !.procs[p].read = cli.file.config,
                                  !.procs[p].config = cli.file.config,
                                  !.procs[p].pc = "resolve"]
  /\ UNCHANGED << pc, act, builder, locals, wallet_map, log, result,
                  build_rec, resp_body, resp_out, sup, calls >>

\* UserOpMiddleware::create_scw_deployment_uo as the CLI uses it: the
\* builder, the counter-factual address, the code and the nonce at it; the
\* operation is prepared, no request goes to the bundler.
create_scw_deployment_uo(signer, wallet_name, salt, answered, code, nonce_ok) ==
  LET nb == UserOperationBuilder_new(signer, wallet_name, None, Some(salt))
      r == set_scw_address(nb.builder, answered)
  IN IF ~nb.ok
       THEN [ok |-> FALSE, err |-> "WalletNotSupported", requests |-> <<>>,
             scw_address |-> ZeroAddress]
     ELSE IF ~r.ok
       THEN [ok |-> FALSE, err |-> "MiddlewareError", requests |-> << "getAddress" >>,
             scw_address |-> ZeroAddress]
     ELSE IF code = "error"
       THEN [ok |-> FALSE, err |-> "MiddlewareError",
             requests |-> << "getAddress", "eth_getCode" >>, scw_address |-> ZeroAddress]
     ELSE IF code = "nonempty"
       THEN [ok |-> FALSE, err |-> "SmartContractWalletHasBeenDeployed",
             requests |-> << "getAddress", "eth_getCode" >>, scw_address |-> ZeroAddress]
     ELSE IF ~nonce_ok
       THEN [ok |-> FALSE, err |-> "MiddlewareError",
             requests |-> << "getAddress", "eth_getCode", "eth_getTransactionCount" >>,
             scw_address |-> ZeroAddress]
     ELSE [ok |-> TRUE, err |-> "none",
           requests |-> << "getAddress", "eth_getCode", "eth_getTransactionCount" >>,
           scw_address |-> r.address]

\* NewWalletAddress, lines 190-247: the key of source_address is looked up
\* in the copy, the middleware is built, create_scw_deployment_uo(..).await?
\* gives the address, which is pushed onto the copy.
cli_resolve ==
  /\ pc = "cli"
  /\ \E p \in Procs, answered \in BOOLEAN, code \in CodeAnswers, nonce_ok \in BOOLEAN :
       LET me == cli.procs[p]
           found == \E i \in 1..Len(me.config.address_key_map) :
                      me.config.address_key_map[i].address = me.source_address
           d == create_scw_deployment_uo(me.source_address, me.wallet_name, me.salt,
                                         answered, code, nonce_ok)
       IN /\ me.pc = "resolve"
          /\ cli' = IF ~found THEN cli_return(p, RetErr("AddressNotFound"))
                    ELSE IF ~d.ok
                      THEN [cli_return(p, RetErr(d.err)) EXCEPT !.procs[p].requests = d.requests]
                    ELSE [cli EXCEPT !.procs[p].requests = d.requests,
                                     !.procs[p].config =
                                        push_scw(me.config, me.source_address, d.scw_address),
                                     !.procs[p].pc = "create"]
  /\ UNCHANGED << pc, act, builder, locals, wallet_map, log, result,
                  build_rec, resp_body, resp_out, sup, calls >>

\* A rewrite that reads config.json again and redoes its push on what the
\* file holds now, leaving the file in place.
cli_create_rereads ==
  /\ pc = "cli"
  /\ \E p \in Procs :
       LET me == cli.procs[p]
           last == IF me.cmd = "new-key"
                     THEN me.config.address_key_map[Len(me.config.address_key_map)].address
                     ELSE me.config.address_scw_map[me.source_address]
                            [Len(me.config.address_scw_map[me.source_address])]
       IN /\ me.pc = "create"
          /\ cli.file.valid
          /\ cli' = [cli EXCEPT !.procs[p].pc = "write",
                                !.procs[p].config =
                                   IF me.cmd = "new-key" THEN push_key(cli.file.config, last)
                                   ELSE push_scw(cli.file.config, me.source_address, last)]
  /\ UNCHANGED << pc, act, builder, locals, wallet_map, log, result,
                  build_rec, resp_body, resp_out, sup, calls >>

\* File::create("config.json") (lines 172, 252): the file is created or
\* truncated to nothing, which does not parse.
cli_create ==
  /\ pc = "cli"
  /\ \E p \in Procs :
       /\ cli.procs[p].pc = "create"
       /\ cli' = [cli EXCEPT !.file = File(TRUE, FALSE, EmptyConfig),
                             !.procs[p].pc = "write"]
  /\ UNCHANGED << pc, act, builder, locals, wallet_map, log, result,
                  build_rec, resp_body, resp_out, sup, calls >>

\* file.write_all(updated_config_str) and Ok(()) (lines 173-176, 253-256):
\* the copy is written from the start of the file. Over a content another
\* invocation wrote since the truncation, the result is the copy when it is
\* at least as long (fits), and the copy followed by the rest of the other
\* content, which does not parse, when it is shorter.
cli_write ==
  /\ pc = "cli"
  /\ \E p \in Procs, fits \in BOOLEAN :
       /\ cli.procs[p].pc = "write"
       /\ cli' = [cli_return(p, RetOk("unit")) EXCEPT
                    !.file = IF cli.file.valid /\ ~fits
                               THEN File(TRUE, FALSE, EmptyConfig)
                               ELSE File(TRUE, TRUE, cli.procs[p].config)]
  /\ UNCHANGED << pc, act, builder, locals, wallet_map, log, result,
                  build_rec, resp_body, resp_out, sup, calls >>

\* WalletSubcommands::NewWallet {} => Ok(()) (line 258)
cli_new_wallet ==
  /\ pc = "cli"
  /\ \E p \in Procs :
       /\ cli.procs[p].pc = "start"
       /\ cli' = [cli_return(p, RetOk("unit")) EXCEPT !.procs[p].cmd = "new-wallet"]
  /\ UNCHANGED << pc, act, builder, locals, wallet_map, log, result,
                  build_rec, resp_body, resp_out, sup, calls >>

\* WalletSubcommands::SendEth {} => Ok(()) (line 259)
cli_send_eth ==
  /\ pc = "cli"
  /\ \E p \in Procs :
       /\ cli.procs[p].pc = "start"
       /\ cli' = [cli_return(p, RetOk("unit")) EXCEPT !.procs[p].cmd = "transfer"]
  /\ UNCHANGED << pc, act, builder, locals, wallet_map, log, result,
                  build_rec, resp_body, resp_out, sup, calls >>

NextCli ==
  \/ cli_new_key_start
  \/ cli_new_wallet_address_start
  \/ cli_read
  \/ cli_resolve
  \/ cli_create
  \/ cli_write
  \/ cli_new_wallet
  \/ cli_send_eth

SpecCli == InitCli /\ [][NextCli]_vars

NumeralInputs == { Numeral(1), Numeral(3), BigNumeral }
NumberPairs == { None } \cup { Some(<<n, m>>) : n \in NumeralInputs, m \in NumeralInputs }
MessageInputs == { Message(c, p, a) : c \in NumberPairs, p \in NumberPairs, a \in BOOLEAN }
BodyInputs ==
  { Body(t, e, r, err) :
      t \in BOOLEAN, e \in BOOLEAN, r \in {None, Some("hash1")},
      err \in {None} \cup { Some(msg) : msg \in MessageInputs } }

InitReply ==
  /\ pc = "reply"
  /\ act = NoAct
  /\ builder = NoBuilder
  /\ locals = NoLocals
  /\ wallet_map = wallet_map_new
  /\ log = <<>>
  /\ result = NoResult
  /\ build_rec = NoBuildRec
  /\ resp_body \in BodyInputs
  /\ resp_out = OutErr("none")
  /\ sup = NoSup
  /\ cli = NoCli
  /\ calls = NoCalls

r_handle_response ==
  /\ pc = "reply"
  /\ resp_out = OutErr("none")
  /\ resp_out' = handle_response(resp_body)
  /\ UNCHANGED << pc, act, builder, locals, wallet_map, log, result, build_rec, resp_body, sup, cli, calls >>

NextReply == r_handle_response

SpecReply == InitReply /\ [][NextReply]_vars

\* ------------------------------------------------------------- properties
BundlerIndexes ==
  { i \in 1..Len(log) :
      log[i].method \in {"eth_estimateUserOperationGas", "eth_sendUserOperation"} }

\* j is the send that follows send i.
NextSend(i, j) ==
  /\ i \in SendIndexes
  /\ j \in SendIndexes
  /\ i < j
  /\ \A k \in SendIndexes : ~(i < k /\ k < j)

AllFieldsSet(p) == \A f \in Fields : is_some(p[f])

\* C1: every operation call, send_eth and deploy_scw hand to
\* eth_estimateUserOperationGas or eth_sendUserOperation comes from a partial
\* operation on which build_uo succeeds and whose eleven fields are all set.
C1_EmittedOperationsAreBuilt ==
  \A i \in BundlerIndexes :
    /\ AllFieldsSet(log[i].src)
    /\ build_uo([uo |-> log[i].src]).ok
    /\ log[i].uo = sign_uo(UserOperation_from(log[i].src))

C1_Witness ==
  /\ act.kind = "call"
  /\ SendCount >= 2
  /\ \E i \in BundlerIndexes : log[i].method = "eth_estimateUserOperationGas"

\* C2 as stated: build_uo succeeds exactly when the ten pre-signature fields
\* are set, whatever the signature field is.
C2_SucceedsIffTenFieldsSet ==
  build_rec.called =>
    (build_rec.ok <=> \A f \in PreSignatureFields : is_some(build_rec.src[f]))

\* C2 amended: build_uo succeeds exactly when all eleven fields, the
\* signature included, are set.
C2_SucceedsIffElevenFieldsSet ==
  build_rec.called => (build_rec.ok <=> AllFieldsSet(build_rec.src))

C2_Witness ==
  /\ build_rec.called
  /\ ~build_rec.ok
  /\ \A f \in PreSignatureFields : is_some(build_rec.src[f])
  /\ is_none(build_rec.src.signature)

\* C3: a failing build_uo names the first unset field in the canonical order
\* of the UserOperation structure.
C3_ErrorNamesFirstUnsetInCanonicalOrder ==
  (build_rec.called /\ ~build_rec.ok) =>
    build_rec.err = << "MissingUserOperationField",
                       unwrap(FirstMissing(build_rec.src, CanonicalOrder, 1)) >>

\* C4: in call and send_eth, the send that follows a send rejected with
\* CallGasLimitError(_, M) carries call_gas_limit >= M, and the send that
\* follows one rejected with PreVerificationGasError(_, M) carries
\* pre_verification_gas >= M.
C4_NextSendCarriesTheHint ==
  act.kind \in {"call", "send_eth"} =>
    \A i, j \in SendIndexes :
      NextSend(i, j) =>
        /\ log[i].out.tag = "CallGasLimitError" => log[j].uo.call_gas_limit >= log[i].out.m
        /\ log[i].out.tag = "PreVerificationGasError" =>
             log[j].uo.pre_verification_gas >= log[i].out.m

C4_Witness ==
  /\ act.kind = "send_eth"
  /\ \E i, j \in SendIndexes :
       /\ NextSend(i, j)
       /\ log[i].out.tag = "CallGasLimitError"
       /\ log[i].out.m > log[i].uo.call_gas_limit
  /\ \E i, j \in SendIndexes :
       /\ NextSend(i, j)
       /\ log[i].out.tag = "PreVerificationGasError"

\* C5: deploy_scw does not return to its caller on a send rejected with one
\* of the three gas errors (it adjusts and sends again).
C5_DeployRetriesOnGasErrors ==
  (act.kind = "deploy_scw" /\ pc = "done" /\ Len(log) > 0) =>
    ~( /\ log[Len(log)].method = "eth_sendUserOperation"
       /\ log[Len(log)].out.tag \in GasErrors
       /\ result.tag = "Err" )

\* C6: from one send of a call or send_eth action to the next, none of
\* call_gas_limit, pre_verification_gas and verification_gas_limit decreases.
C6_GasFieldsNeverDecrease ==
  act.kind \in {"call", "send_eth"} =>
    \A i, j \in SendIndexes :
      NextSend(i, j) =>
        /\ log[j].uo.call_gas_limit >= log[i].uo.call_gas_limit
        /\ log[j].uo.pre_verification_gas >= log[i].uo.pre_verification_gas
        /\ log[j].uo.verification_gas_limit >= log[i].uo.verification_gas_limit

\* C7: in call and send_eth, a send that fails with an unrecognized error
\* message, an HTTP failure or an undecodable body is the action's last
\* send, and the action has returned an error.
C7_OtherFailuresEndTheAction ==
  act.kind \in {"call", "send_eth"} =>
    \A i \in SendIndexes :
      log[i].out.tag \in {"UnknownError", "ReqwestError", "JsonError"} =>
        /\ pc = "done"
        /\ result.tag = "Err"
        /\ \A j \in SendIndexes : j <= i

\* C8: a body with a decodable result gives Ok; otherwise a decodable error
\* is classified: call-gas pattern, else pre-verification pattern, else AA40,
\* else UnknownError.
C8_ClassificationOrder ==
  (resp_out # OutErr("none") /\ resp_body.text_ok /\ resp_body.envelope) =>
    /\ is_some(resp_body.result) => resp_out = OutOk(unwrap(resp_body.result))
    /\ (is_none(resp_body.result) /\ is_some(resp_body.error)) =>
         LET msg == unwrap(resp_body.error)
         IN IF is_some(msg.call)
              THEN resp_out = OutCustom("CallGasLimitError",
                                        unwrap(msg.call)[1].val, unwrap(msg.call)[2].val)
            ELSE IF is_some(msg.pre)
              THEN resp_out = OutCustom("PreVerificationGasError",
                                        unwrap(msg.pre)[1].val, unwrap(msg.pre)[2].val)
            ELSE IF msg.aa40 THEN resp_out = OutCustom("VerificationGasLimitError", 0, 0)
            ELSE resp_out = OutCustom("UnknownError", 0, 0)

SideEffectMethods ==
  {"eth_sendUserOperation", "eth_estimateUserOperationGas", "eth_sendTransaction"}

\* C9: when deploy_scw reads non-empty code at the counter-factual address it
\* has returned SmartContractWalletHasBeenDeployed, has issued no send, no
\* estimate and no pre-funding transfer, and the map is as it was.
C9_DeployedWalletIsRejectedFirst ==
  (act.kind = "deploy_scw" /\ locals.code = "nonempty") =>
    /\ pc = "done"
    /\ result = RetErr("SmartContractWalletHasBeenDeployed")
    /\ \A i \in 1..Len(log) : log[i].method \notin SideEffectMethods
    /\ wallet_map = wallet_map_new

C9_Witness ==
  /\ act.kind = "deploy_scw"
  /\ locals.code = "nonempty"
  /\ result.tag = "Err"

\* C10: when call or send_eth reads empty code at the wallet address it has
\* returned SmartContractWalletHasNotBeenDeployed and has issued no estimate,
\* no send and no EntryPoint nonce read.
C10_UndeployedWalletIsRejected ==
  (act.kind \in {"call", "send_eth"} /\ locals.code = "empty") =>
    /\ pc = "done"
    /\ result = RetErr("SmartContractWalletHasNotBeenDeployed")
    /\ \A i \in 1..Len(log) :
         log[i].method \notin {"eth_sendUserOperation", "eth_estimateUserOperationGas", "getNonce"}

C10_Witness ==
  /\ act.kind = "call"
  /\ locals.code = "empty"
  /\ result.tag = "Err"
  /\ Len(log) = 1

\* The pre-funding transfers that were sent and whose await returned.
ConfirmedTransfers ==
  { i \in 1..Len(log) :
      log[i].method = "eth_sendTransaction" /\ log[i].out.tag = "Ok" }

EstimateIndexes ==
  { i \in 1..Len(log) : log[i].method = "eth_estimateUserOperationGas" }

\* C12: within one action at most one estimate is issued; every send comes
\* after the one estimate, which had returned its result; and the signature
\* of every operation handed to the bundler is the one sign_uo computes over
\* the fields that operation carries (it was signed after the last change of
\* its gas fields).
C12_EstimateSignSendAreSerial ==
  /\ Cardinality(EstimateIndexes) <= 1
  /\ \A i \in SendIndexes :
       \E j \in EstimateIndexes : j < i /\ log[j].out.tag = "Ok"
  /\ \A i \in BundlerIndexes :
       log[i].uo.signature =
         << "sig", SignerAddress, uo_hash_of(log[i].uo, ENTRY_POINT_ADDRESS, ChainId) >>

C12_Witness ==
  /\ act.kind = "call"
  /\ SendCount >= 2
  /\ \E i \in SendIndexes, j \in EstimateIndexes :
       log[i].uo.call_gas_limit # log[j].uo.call_gas_limit

\* The fee estimates read from the inner provider.
FeeReads == { i \in 1..Len(log) : log[i].method = "eth_feeHistory" }

\* C13: in call and send_eth the fee estimate is read once, and every send
\* carries as max_fee_per_gas and max_priority_fee_per_gas the pair that
\* read returned.
C13_FeesAreThoseReadOnce ==
  act.kind \in {"call", "send_eth"} =>
    /\ Cardinality(FeeReads) <= 1
    /\ \A i \in SendIndexes :
         \E j \in FeeReads :
           /\ j < i
           /\ log[j].arg = Some(<< log[i].uo.max_fee_per_gas,
                                   log[i].uo.max_priority_fee_per_gas >>)

C13_Witness ==
  /\ act.kind = "send_eth"
  /\ SendCount >= 3
  /\ \E i \in SendIndexes : log[i].out.tag = "CallGasLimitError"
  /\ \E i \in SendIndexes : log[i].out.tag = "VerificationGasLimitError"
  /\ \A i \in SendIndexes : log[i].uo.max_fee_per_gas = 40

\* C14: a set_scw_address call on a builder whose scw_address is set makes
\* no factory query, returns the stored address and leaves scw_address as it
\* was.
C14_StoredAddressIsReturned ==
  \A i \in AddressCalls :
    is_some(log[i].arg[1]) =>
      /\ log[i].out = OutOk(unwrap(log[i].arg[1]))
      /\ log[i].arg[2] = log[i].arg[1]
      /\ (i > 1 => log[i - 1].method # "getAddress")

\* C15: after a set_scw_address call that returned an address, a further
\* call on the same builder returns that address and no factory query is
\* made between the two.
C15_SecondCallMakesNoQuery ==
  \A i, j \in AddressCalls :
    (i < j /\ log[i].out.tag = "Ok") =>
      /\ log[j].out = log[i].out
      /\ \A k \in (i + 1)..j : log[k].method # "getAddress"

\* The sends the bundler answered with a hash.
SuccessfulSends == { i \in SendIndexes : log[i].out.tag = "Ok" }

\* C16: the builder's uo_hash is unset as long as no send of the action has
\* succeeded, and once a send has succeeded it holds the hash the bundler
\* returned for it, in every later state.
C16_HashIsTheOneReturned ==
  /\ SuccessfulSends = {} => is_none(builder.uo_hash)
  /\ \A i \in SuccessfulSends : builder.uo_hash = log[i].out.result

C16_Witness ==
  /\ pc = "done"
  /\ act.kind = "deploy_scw"
  /\ SuccessfulSends # {}
  /\ builder.uo_hash = Some("hash2")

\* C17: the map holds, beside the entry made by new(), exactly the sender of
\* the deployment whose send the bundler answered with a hash: deploy_scw
\* adds that entry on the send's success and none on any other path, and
\* call, send_eth and build_random_address add none.
C17_MapChangesOnlyOnDeploySuccess ==
  /\ act.kind # "deploy_scw" => wallet_map = wallet_map_new
  /\ act.kind = "deploy_scw" =>
       wallet_map = wallet_map_new \cup { log[i].uo.sender : i \in SuccessfulSends }

C17_Witness ==
  /\ act.kind = "deploy_scw"
  /\ pc = "done"
  /\ result.tag = "Ok"
  /\ wallet_map = wallet_map_new \cup { generate_address(SIMPLE_ACCOUNT_FACTORY, SignerAddress, 2) }

\* C18: an invocation of call, send_eth or deploy_scw that has stopped has
\* returned a success value or an error value; none has panicked.
C18_ActionsReturnValueOrError ==
  (act.kind \in {"call", "send_eth", "deploy_scw"} /\ pc = "done") =>
    result.tag \in {"Ok", "Err"}

\* C19: in a deployment started by deploy_random_scw(wallet_name, pre_fund)
\* the counter-factual address is asked for the random salt, and the
\* pre-funding transfer goes to that address with the caller's pre_fund as
\* its amount.
C19_RandomDeployFundsWithPreFund ==
  (act.kind = "deploy_scw" /\ act.via = "deploy_random_scw") =>
    \A i \in 1..Len(log) :
      /\ log[i].method = "getAddress" => log[i].arg = << SignerAddress, Some(act.random) >>
      /\ log[i].method = "eth_sendTransaction" =>
           /\ log[i].arg[2] = generate_address(builder.factory_address, SignerAddress, act.random)
           /\ log[i].arg[3] = act.caller_pre_fund

\* The positions in sup.events of the steps named step.
EventsOf(step) == { i \in 1..Len(sup.events) : sup.events[i].step = step }

\* C20: the bundle-builder is started only after the mempool service
\* started and a client connected to it; the JSON-RPC task is spawned, and
\* its server started, only after the bundle-builder; and when the mempool
\* service failed to start, neither later service was started and
\* run_bundler has returned that error.
C20_ServicesStartInOrder ==
  /\ \A i \in EventsOf("bundler_service_run") :
       \E j \in EventsOf("uopool_service_run"), k \in EventsOf("uopool_connect") :
         /\ j < k /\ k < i
         /\ sup.events[j].ok /\ sup.events[k].ok
  /\ \A i \in EventsOf("spawn_facade") \cup EventsOf("facade_start") :
       \E j \in EventsOf("bundler_service_run") : j < i
  /\ \A i \in EventsOf("uopool_service_run") :
       ~sup.events[i].ok =>
         /\ EventsOf("bundler_service_run") = {}
         /\ EventsOf("spawn_facade") = {}
         /\ sup.services = {}
         /\ sup.ret = RetErr("uopool_service_run")

C20_Witness ==
  /\ sup.services = {"uopool", "bundler", "facade"}
  /\ sup.facade = "serving"
  /\ sup.main = "pending"

\* C21: once ctrl-c or SIGTERM has been delivered to a supervisor whose task
\* has finished starting and waits in pending(), run_bundler eventually
\* returns Ok(()) and nothing is left running: the mempool, the
\* bundle-builder and the JSON-RPC task have all ended.
C21_SignalShutsDown ==
  (sup.main = "pending" /\ sup.signal \in Signals)
    ~> (sup.main = "returned" /\ sup.ret = RetOk("unit") /\ RunningTasks(sup) = {})

C21_Witness ==
  /\ sup.main = "returned"
  /\ sup.ret = RetOk("unit")
  /\ sup.signal \in Signals
  /\ sup.services = {}
  /\ EventsOf("facade_start") # {}
  /\ EventsOf("stop_facade") # {}
  /\ EventsOf("stop_bundler") # {}
  /\ EventsOf("stop_uopool") # {}

\* C22: once the JSON-RPC task has failed (registering its methods,
\* connecting, or starting its server), run_bundler eventually returns an
\* error.
C22_FacadeFailureIsReturned ==
  (sup.facade = "failed") ~> (sup.main = "returned" /\ sup.ret.tag = "Err")

\* C23: on shutdown the services stop in the order JSON-RPC server,
\* bundle-builder, mempool: the mempool stops only after the bundle-builder
\* has stopped, and neither stops while the JSON-RPC server is still up.
C23_ShutdownOrder ==
  /\ \A i \in EventsOf("stop_uopool") :
       /\ EventsOf("bundler_service_run") # {} =>
            \E j \in EventsOf("stop_bundler") : j < i
       /\ EventsOf("spawn_facade") # {} /\ sup.facade # "failed" =>
            \E j \in EventsOf("stop_facade") : j < i
  /\ \A i \in EventsOf("stop_bundler") :
       EventsOf("spawn_facade") # {} /\ sup.facade # "failed" =>
         \E j \in EventsOf("stop_facade") : j < i

\* C24: get_user_operation_receipt for an operation that is not mined yet,
\* which the bundler answers with a well-formed reply whose result is null,
\* returns Ok with no receipt, not an error.
C24_NotMinedIsNotAnError ==
  \A i \in 1..Len(log) :
    /\ log[i].method = "eth_getUserOperationReceipt"
    /\ log[i].arg[2] = Reply(TRUE, BodyResult(JsonNull))
    => /\ log[i].out.tag = "Ok"
       /\ pc = "done" => result.tag = "Ok"

\* C25: an invocation of `wallet new-wallet` or `wallet transfer` that
\* returned success has issued eth_sendUserOperation.
C25_CliSubmitsAnOperation ==
  \A p \in Procs :
    cli.procs[p].cmd \in {"new-wallet", "transfer"} /\ cli.procs[p].ret.tag = "Ok"
      => \E i \in 1..Len(cli.procs[p].requests) :
           cli.procs[p].requests[i] = "eth_sendUserOperation"

\* The number of entries a Config holds.
ConfigSize(c) ==
  Len(c.address_key_map) + Len(c.address_scw_map[CliAddress(0)])
    + Len(c.address_scw_map[CliAddress(1)]) + Len(c.address_scw_map[CliAddress(2)])

MutatingCommands == {"new-key", "new-wallet-address"}

\* C30: the rewrite of config.json loses updates. When two invocations of
\* `wallet new-key` or `wallet new-wallet-address` overlap, both having read
\* the same content, and both have completed, a config.json that parses is
\* the copy of one of them: it holds one entry more than was read, not two.
C30_OverlappingRewritesLoseOne ==
  \A p \in Procs, q \in Procs :
    /\ p # q
    /\ cli.procs[p].cmd \in MutatingCommands /\ cli.procs[q].cmd \in MutatingCommands
    /\ cli.procs[p].ret.tag = "Ok" /\ cli.procs[q].ret.tag = "Ok"
    /\ cli.procs[p].read = cli.procs[q].read
    /\ cli.file.valid
    => /\ cli.file.config \in {cli.procs[p].config, cli.procs[q].config}
       /\ ConfigSize(cli.file.config) = ConfigSize(cli.procs[p].read) + 1

\* Both new-key invocations returned Ok(()); config.json holds the key of
\* the second and not the key of the first.
C30_Witness ==
  /\ cli.procs[1].cmd = "new-key" /\ cli.procs[2].cmd = "new-key"
  /\ cli.procs[1].ret.tag = "Ok" /\ cli.procs[2].ret.tag = "Ok"
  /\ cli.file.valid
  /\ cli.file.config.address_key_map =
       << AddressKeyMapping(CliAddress(0)), AddressKeyMapping(CliAddress(2)) >>

SupportedWalletNames == {"simple-account", "simple-account-test"}

\* C27: wallet resolution accepts exactly "simple-account" and
\* "simple-account-test". UserOperationBuilder::new and set_wallet succeed
\* for these two names and fail for every other; for both names the wallet
\* is SimpleAccount and the factory SimpleAccountFactory, with the factory
\* address of the name; a set_wallet that succeeds changes nothing else, and
\* one that fails changes nothing at all.
C27_WalletResolution ==
  [][ /\ build_rec'.op \in {"new", "set_wallet"} =>
           /\ build_rec'.ok <=> build_rec'.name \in SupportedWalletNames
           /\ ~build_rec'.ok => builder' = builder
           /\ build_rec'.ok =>
                /\ builder'.wallet_contract = "SimpleAccount"
                /\ builder'.factory_contract = "SimpleAccountFactory"
                /\ builder'.factory_address =
                     IF build_rec'.name = "simple-account" THEN SIMPLE_ACCOUNT_FACTORY
                     ELSE GETH_SIMPLE_ACCOUNT_FACTORY
      /\ build_rec'.op = "set_wallet" =>
           [builder' EXCEPT !.wallet_contract = builder.wallet_contract,
                            !.factory_contract = builder.factory_contract,
                            !.factory_address = builder.factory_address] = builder
    ]_vars

\* set_wallet has failed on a builder that holds fields and a hash.
C27_Witness ==
  /\ build_rec.op = "set_wallet"
  /\ ~build_rec.ok
  /\ build_rec.name = "soul-wallet"
  /\ builder.factory_address = GETH_SIMPLE_ACCOUNT_FACTORY
  /\ is_some(builder.uo.sender)

\* C28: a set_uo_<field> call, at any stage of the builder, puts the value
\* given into that field and leaves every other field of the operation and
\* every other member of the builder (scw_address, salt, uo_hash among them)
\* as they were.
C28_SettersOverwriteOneField ==
  [][ build_rec'.op = "setter" =>
        /\ builder'.uo[build_rec'.name] = build_rec'.value
        /\ \A g \in Fields \ {build_rec'.name} : builder'.uo[g] = builder.uo[g]
        /\ [builder' EXCEPT !.uo = builder.uo] = builder
    ]_vars

\* A setter has run on a builder whose hash is recorded.
C28_Witness ==
  /\ build_rec.op = "setter"
  /\ build_rec.name = "nonce"
  /\ is_some(builder.uo_hash)
  /\ is_some(builder.uo.signature)

\* The init_code that deploys the action's wallet: the factory address of
\* the wallet name followed by the createAccount(owner, salt) calldata.
DeploymentInitCode ==
  << match_wallet(act.wallet_name).addr, <<"createAccount", SignerAddress, act.salt>> >>

\* C29: in every operation an action sends to the bundler, init_code is
\* empty exactly when the action read non-empty code at the sender (call,
\* send_eth), and is the factory address followed by the
\* createAccount(owner, salt) calldata exactly when it read empty code
\* (deploy_scw).
C29_InitCodeMatchesDeployment ==
  \A i \in BundlerIndexes :
    /\ log[i].uo.init_code = EmptyBytes
         <=> (act.kind \in {"call", "send_eth"} /\ locals.code = "nonempty")
    /\ log[i].uo.init_code = DeploymentInitCode
         <=> (act.kind = "deploy_scw" /\ locals.code = "empty")

C29_Witness ==
  /\ act.kind = "deploy_scw"
  /\ locals.code = "empty"
  /\ \E i \in SendIndexes :
       /\ log[i].uo.init_code = DeploymentInitCode
       /\ log[i].out.tag = "Ok"

\* C31: the first eth_sendUserOperation of an action carries the
\* pre_verification_gas and call_gas_limit the estimate returned, and the
\* estimated verification_gas_limit plus 10000.
C31_FirstSendCarriesTheEstimate ==
  \A i \in SendIndexes :
    (\A k \in SendIndexes : i <= k) =>
      \A e \in EstimateIndexes :
        log[e].out.tag = "Ok" =>
          LET est == unwrap(log[e].out.result)
          IN /\ log[i].uo.pre_verification_gas = est.pre_verification_gas
             /\ log[i].uo.call_gas_limit = est.call_gas_limit
             /\ log[i].uo.verification_gas_limit = est.verification_gas_limit + 10000

\* C32: after a send rejected with VerificationGasLimitError the next send
\* carries verification_gas_limit raised by 10000 in call and by 1000 in
\* send_eth, and the call_gas_limit and pre_verification_gas of the rejected
\* send.
C32_VerificationGasStep ==
  act.kind \in {"call", "send_eth"} =>
    \A i, j \in SendIndexes :
      (NextSend(i, j) /\ log[i].out.tag = "VerificationGasLimitError") =>
        /\ log[j].uo.verification_gas_limit =
             log[i].uo.verification_gas_limit + (IF act.kind = "call" THEN 10000 ELSE 1000)
        /\ log[j].uo.call_gas_limit = log[i].uo.call_gas_limit
        /\ log[j].uo.pre_verification_gas = log[i].uo.pre_verification_gas

C32_Witness ==
  /\ act.kind = "send_eth"
  /\ \E i, j \in SendIndexes :
       /\ NextSend(i, j)
       /\ log[i].out.tag = "VerificationGasLimitError"
       /\ log[j].uo.verification_gas_limit = log[i].uo.verification_gas_limit + 1000

\* The gas fields in which two operations differ.
GasFieldsChanged(u, v) ==
  { f \in {"call_gas_limit", "pre_verification_gas", "verification_gas_limit"} : u[f] # v[f] }

\* C33: two consecutive sends of one call or send_eth action differ in
\* exactly one of call_gas_limit, pre_verification_gas and
\* verification_gas_limit.
C33_RetryChangesOneGasField ==
  act.kind \in {"call", "send_eth"} =>
    \A i, j \in SendIndexes :
      NextSend(i, j) => Cardinality(GasFieldsChanged(log[i].uo, log[j].uo)) = 1

C35_PlaceholderIs65Bytes ==
  is_some(builder.uo.signature) =>
    signature_len(unwrap(builder.uo.signature)) = 65

\* C36: within one call or send_eth at most one eth_sendUserOperation
\* succeeds and no send is issued after it; the hash the action returns is
\* the one that send returned, and the builder's uo_hash holds the same hash.
C36_OneSuccessfulSendEndsTheLoop ==
  act.kind \in {"call", "send_eth"} =>
    /\ Cardinality(SuccessfulSends) <= 1
    /\ \A i \in SuccessfulSends : \A k \in SendIndexes : k <= i
    /\ \A i \in SuccessfulSends : builder.uo_hash = log[i].out.result
    /\ (pc = "done" /\ result.tag = "Ok") =>
         \E i \in SuccessfulSends :
           /\ result.value = log[i].out.result
           /\ result.value = builder.uo_hash

\* A send_eth has returned the hash of its third send, the first to succeed.
C36_Witness ==
  /\ act.kind = "send_eth"
  /\ pc = "done"
  /\ result.tag = "Ok"
  /\ SendCount = 3
  /\ \E i \in SuccessfulSends : result.value = <<"hash2">> /\ builder.uo_hash = log[i].out.result

NonceReads == { i \in 1..Len(log) : log[i].method = "getNonce" }

RetriedFields ==
  {"call_gas_limit", "pre_verification_gas", "verification_gas_limit", "signature"}

\* C37: all the sends of one call or send_eth carry the same sender, nonce,
\* init_code, call_data and paymaster_and_data, and differ in nothing but
\* the three gas limits and the signature; the EntryPoint nonce is read
\* once, before the estimate, and the value read is the nonce of every send.
C37_RetriesKeepTheOperation ==
  act.kind \in {"call", "send_eth"} =>
    /\ \A i, j \in SendIndexes :
         \A f \in Fields \ RetriedFields : log[i].uo[f] = log[j].uo[f]
    /\ Cardinality(NonceReads) <= 1
    /\ \A n \in NonceReads : \A e \in BundlerIndexes : n < e
    /\ \A i \in SendIndexes :
         /\ NonceReads # {}
         /\ log[i].uo.nonce = locals.nonce
         /\ log[i].uo.sender = act.scw_address

\* Three sends of a call with nonce 1, no two with the same gas limits.
C37_Witness ==
  /\ act.kind = "call"
  /\ SendCount = 3
  /\ \A i \in SendIndexes : log[i].uo.nonce = 1
  /\ \A i, j \in SendIndexes :
       i # j => GasFieldsChanged(log[i].uo, log[j].uo) # {}

OverlapReads(p) ==
  { i \in 1..Len(calls.requests) :
      calls.requests[i].task = p /\ calls.requests[i].method = "getNonce" }
OverlapSends(p) ==
  { i \in 1..Len(calls.requests) :
      calls.requests[i].task = p /\ calls.requests[i].method = "eth_sendUserOperation" }

\* C38: nothing allocates nonces among the calls of one client: the
\* operation a call submits carries the nonce that call read from the
\* EntryPoint, so two calls on one wallet that read the same nonce submit
\* operations with the same (sender, nonce).
C38_OverlappingCallsShareTheNonce ==
  /\ \A p \in CallTasks : \A i \in OverlapSends(p) :
       \E r \in OverlapReads(p) :
         /\ r < i
         /\ calls.requests[i].uo.nonce = calls.requests[r].nonce
  /\ \A p, q \in CallTasks : \A i \in OverlapSends(p), j \in OverlapSends(q) :
       \A r \in OverlapReads(p), u \in OverlapReads(q) :
         calls.requests[r].nonce = calls.requests[u].nonce =>
           /\ calls.requests[i].uo.sender = calls.requests[j].uo.sender
           /\ calls.requests[i].uo.nonce = calls.requests[j].uo.nonce

\* Both calls have read the nonce before either has sent, and both have had
\* an operation accepted: two different operations with the same sender and
\* nonce.
C38_Witness ==
  /\ \A p \in CallTasks : calls.task[p].pc = "done" /\ calls.task[p].ret.tag = "Ok"
  /\ \E i \in OverlapSends(1), j \in OverlapSends(2) :
       /\ calls.requests[i].uo.sender = calls.requests[j].uo.sender
       /\ calls.requests[i].uo.nonce = calls.requests[j].uo.nonce
       /\ calls.requests[i].uo # calls.requests[j].uo
       /\ \A r \in OverlapReads(1) \cup OverlapReads(2) : r < i /\ r < j

Transfers == { i \in 1..Len(log) : log[i].method = "eth_sendTransaction" }

\* C39: when deploy_scw fails after its pre-funding transfer was confirmed,
\* the transfer stays as it was sent and no second transaction compensates
\* it, the client's map is as it was before the action, and no hash is
\* recorded on the builder.
C39_FailedDeploymentKeepsTheTransfer ==
  (/\ act.kind = "deploy_scw"
   /\ pc = "done"
   /\ result.tag # "Ok"
   /\ ConfirmedTransfers # {}) =>
     /\ Transfers = ConfirmedTransfers
     /\ Cardinality(Transfers) = 1
     /\ wallet_map = wallet_map_new
     /\ is_none(builder.uo_hash)
     /\ is_none(locals.uo_hash)

\* A deploy_scw whose send the bundler rejected after the transfer.
C39_Witness ==
  /\ act.kind = "deploy_scw"
  /\ pc = "done"
  /\ result.tag = "Err"
  /\ ConfirmedTransfers # {}
  /\ \E i \in SendIndexes : log[i].out.tag # "Ok"
  /\ wallet_map = wallet_map_new

\* A deploy_scw whose estimate failed after the transfer.
C39_WitnessEstimate ==
  /\ act.kind = "deploy_scw"
  /\ pc = "done"
  /\ result.tag = "Err"
  /\ ConfirmedTransfers # {}
  /\ SendIndexes = {}
  /\ \E e \in EstimateIndexes : log[e].out.tag # "Ok"

\* C40: in call, send_eth and deploy_scw the real signature is only on the
\* copy sign_uo returns: the builder's signature field is unset or holds the
\* placeholder in every state, also after the hash is recorded, so the
\* operation handed to the bundler was built from a builder holding the
\* placeholder and is never the one the builder builds.
C40_BuilderKeepsThePlaceholder ==
  act.kind \in {"call", "send_eth", "deploy_scw"} =>
    /\ builder.uo.signature \in {None, Some(DUMMY_SIGNATURE)}
    /\ \A i \in BundlerIndexes :
         /\ log[i].src.signature = Some(DUMMY_SIGNATURE)
         /\ log[i].uo.signature # DUMMY_SIGNATURE
         /\ log[i].uo = sign_uo(UserOperation_from(log[i].src))
         /\ builder.uo.signature = Some(DUMMY_SIGNATURE)
         /\ (i = Len(log) /\ build_uo(builder).ok) =>
              /\ build_uo(builder).uo # log[i].uo
              /\ [build_uo(builder).uo EXCEPT !.signature = log[i].uo.signature]
                   # build_uo(builder).uo

\* A call has returned the hash of its signed operation and the builder that
\* records the hash still holds the placeholder.
C40_Witness ==
  /\ act.kind = "call"
  /\ pc = "done"
  /\ result.tag = "Ok"
  /\ is_some(builder.uo_hash)
  /\ builder.uo.signature = Some(DUMMY_SIGNATURE)
  /\ \E i \in SuccessfulSends :
       /\ i = Len(log)
       /\ log[i].uo.signature # DUMMY_SIGNATURE
       /\ build_uo(builder).uo = [log[i].uo EXCEPT !.signature = DUMMY_SIGNATURE]

====
